---- MODULE Spec2Model ----
(***************************************************************************)
(* Model of the ITPF legal search functions: the Netlify function          *)
(* (netlify/functions/searchFunction.js) and the Vercel function           *)
(* (api/search.js).                                                         *)
(*                                                                         *)
(* A JavaScript string is modelled as a sequence of characters, each       *)
(* character being a one-element token: Latin characters are written as    *)
(* themselves, Arabic characters by their code point ("U+0648").  Lengths  *)
(* are therefore UTF-16 code unit counts, as String.prototype.length.      *)
(***************************************************************************)
EXTENDS Integers, Sequences, FiniteSets, TLC

VARIABLES
    pc,                 \* control position of the operation under way
    DEEPSEEK_API_KEYS,  \* the credential pool (module state, fixed at start)
    query,              \* the request's query string
    language,           \* the request's language tag
    subQueries,         \* result of splitQueryIntelligently
    calls,              \* per sub-query: state of its upstream call
    subResults,         \* per sub-query: the settled outcome (Promise.allSettled)
    issued,             \* number of upstream calls issued so far
    aggregated,         \* value returned by aggregateQueryResults
    apiResponse,        \* the handler's function-scoped `var apiResponse`
    response,           \* the HTTP response of the handler
    retryCount,         \* argument of getNextApiKey
    apiKey,             \* value returned by getNextApiKey
    request,            \* the event handed to the handler
    documents,          \* value returned by loadLegalDocuments
    partitions,         \* value returned by partitionDocuments
    stream              \* one streaming call: what arrived and how it settled

vars == <<pc, DEEPSEEK_API_KEYS, query, language, subQueries, calls, subResults,
          issued, aggregated, apiResponse, response, retryCount, apiKey,
          request, documents, partitions, stream>>

\* A variable that holds no value (yet).
NoValue == [undefined |-> TRUE]

IsDefined(v) == "undefined" \notin DOMAIN v

\* JavaScript's undefined / a missing property.
Undefined == "undefined"

(***************************************************************************)
(* Characters                                                              *)
(***************************************************************************)
SP == " "
WAW == "U+0648"
ALEF_HAMZA == "U+0623"
KAF == "U+0643"
MEEM == "U+0645"
ALEF == "U+0627"
YEH == "U+064A"
DAD == "U+0636"
FATHATAN == "U+064B"
BEH == "U+0628"
LAM == "U+0644"
ALEF_HAMZA_BELOW == "U+0625"
FEH == "U+0641"
TEH_MARBUTA == "U+0629"
AIN == "U+0639"
ALEF_MAKSURA == "U+0649"

\* Characters String.prototype.trim removes.
WhiteSpace == {SP, "\t", "\n"}

(***************************************************************************)
(* String primitives (String.prototype.includes, split, trim)              *)
(***************************************************************************)
RECURSIVE IndexOfFrom(_, _, _)
\* Least index >= i at which sep occurs in s, 0 when there is none.
IndexOfFrom(s, sep, i) ==
    IF i + Len(sep) - 1 > Len(s) THEN 0
    ELSE IF SubSeq(s, i, i + Len(sep) - 1) = sep THEN i
    ELSE IndexOfFrom(s, sep, i + 1)

\* Mutant: the includes() guard left out (every string is split).
Includes_Always(s, sep) == TRUE

\* s.includes(sep)
Includes(s, sep) == IndexOfFrom(s, sep, 1) # 0

RECURSIVE StrSplit(_, _)
\* s.split(sep) for a non-empty separator.
StrSplit(s, sep) ==
    LET i == IndexOfFrom(s, sep, 1)
    IN  IF i = 0 THEN <<s>>
        ELSE <<SubSeq(s, 1, i - 1)>> \o StrSplit(SubSeq(s, i + Len(sep), Len(s)), sep)

RECURSIVE TrimStart(_)
TrimStart(s) ==
    IF s # <<>> /\ Head(s) \in WhiteSpace THEN TrimStart(Tail(s)) ELSE s

RECURSIVE TrimEnd(_)
TrimEnd(s) ==
    IF s # <<>> /\ s[Len(s)] \in WhiteSpace THEN TrimEnd(SubSeq(s, 1, Len(s) - 1)) ELSE s

Trim(s) == TrimEnd(TrimStart(s))

\* Mutant: the map over trim() left out.
MapTrim_Missing(parts) == parts

\* parts.map(p => p.trim())
MapTrim(parts) == [i \in 1..Len(parts) |-> Trim(parts[i])]

\* arr.slice(0, n)
SliceTo(arr, n) == SubSeq(arr, 1, IF Len(arr) < n THEN Len(arr) ELSE n)

(***************************************************************************)
(* splitQueryIntelligently                                                 *)
(***************************************************************************)
EnglishSeparator == <<SP, "a", "n", "d", SP>>

arabicSplitters ==
    << <<WAW>>,
       <<ALEF_HAMZA, WAW>>,
       <<KAF, MEEM, ALEF>>,
       <<ALEF_HAMZA, YEH, DAD, ALEF, FATHATAN>>,
       <<BEH, ALEF, LAM, ALEF_HAMZA_BELOW, DAD, ALEF, FEH, TEH_MARBUTA>>,
       <<AIN, LAM, ALEF, WAW, TEH_MARBUTA, SP, AIN, LAM, ALEF_MAKSURA>> >>

\* Mutant: the fragment filter off by one (p.length > 4).
MinFragmentLength_Four == 3 + 1

\* Fragments kept from one split: longer than this many characters.
MinFragmentLength == 3
\* Sub-queries kept by the final filter: trimmed length above this.
MinQueryLength == 2
\* Mutant: the cap set above the fallback threshold.
MaxSubQueries_Five == 3 + 2

\* slice(0, 3)
MaxSubQueries == 3
\* the fallback test: length > 4
MaxParts == 4

\* q.split(splitter).map(p => p.trim()).filter(p => p.length > 3)
SplitParts(q, splitter) ==
    SelectSeq(MapTrim(StrSplit(q, splitter)), LAMBDA p : Len(p) > MinFragmentLength)

RECURSIVE SplitEach(_, _)
\* One pass of the inner forEach: newQueries for one splitter.
SplitEach(qs, splitter) ==
    IF qs = <<>> THEN <<>>
    ELSE (IF Includes(Head(qs), splitter)
          THEN SplitParts(Head(qs), splitter)
          ELSE <<Head(qs)>>) \o SplitEach(Tail(qs), splitter)

\* Mutant: only the first connector is applied.
ApplySplitters_FirstOnly(qs, k) == SplitEach(qs, arabicSplitters[1])

RECURSIVE ApplySplitters(_, _)
\* arabicSplitters.forEach, from the k-th splitter on.
ApplySplitters(qs, k) ==
    IF k > Len(arabicSplitters) THEN qs
    ELSE ApplySplitters(SplitEach(qs, arabicSplitters[k]), k + 1)

splitQueryIntelligently(q, lang) ==
    IF lang # "ar"
    THEN IF Includes(q, EnglishSeparator)
         THEN MapTrim(StrSplit(q, EnglishSeparator))
         ELSE <<q>>
    ELSE LET split == ApplySplitters(<<q>>, 1)
             capped == IF Len(split) > MaxSubQueries
                       THEN SliceTo(split, MaxSubQueries) ELSE split
             kept == SelectSeq(capped, LAMBDA s : Len(Trim(s)) > MinQueryLength)
         IN  IF Len(kept) < 1 \/ Len(kept) > MaxParts THEN <<q>> ELSE kept

(***************************************************************************)
(* The splitter applied to a query (a pure function of query and language) *)
(***************************************************************************)
\* Longest query, in tokens, the splitter is applied to.
MaxTokens == 5

Word4 == <<"q", "r", "s", "t">>
Word3 == <<"x", "y", "z">>

\* Building blocks of the queries: white space, connectors, words of the
\* lengths around the filters' thresholds, and a word with its connector.
QueryTokens(lang) ==
    IF lang = "ar"
    THEN {<<SP>>, <<WAW>>, <<KAF, MEEM, ALEF>>, Word4, Word3, Word4 \o <<WAW>>}
    ELSE {<<SP>>, EnglishSeparator, <<"x", "y">>, <<"z">>}

RECURSIVE Flatten(_)
Flatten(ts) == IF ts = <<>> THEN <<>> ELSE Head(ts) \o Flatten(Tail(ts))

\* "rules for horses and rules for riders"
RulesForHorses == <<"r","u","l","e","s",SP,"f","o","r",SP,"h","o","r","s","e","s">>
RulesForRiders == <<"r","u","l","e","s",SP,"f","o","r",SP,"r","i","d","e","r","s">>
HorsesAndRiders == RulesForHorses \o EnglishSeparator \o RulesForRiders

ExampleQueries(lang) ==
    IF lang = "ar"
    THEN {Word4 \o <<SP>> \o arabicSplitters[k] \o <<SP>> \o Word4 :
              k \in 1..Len(arabicSplitters)}
    ELSE {HorsesAndRiders}

Queries(lang) ==
    {Flatten(ts) : ts \in UNION {[1..n -> QueryTokens(lang)] : n \in 0..MaxTokens}}
        \cup ExampleQueries(lang)

Languages == {"ar", "en"}

SplitInit ==
    /\ pc = "split:ready"
    /\ language \in Languages
    /\ query \in Queries(language)
    /\ subQueries = <<>>
    /\ DEEPSEEK_API_KEYS = <<>>
    /\ calls = <<>>
    /\ subResults = <<>>
    /\ issued = 0
    /\ aggregated = NoValue
    /\ apiResponse = NoValue
    /\ response = NoValue
    /\ retryCount = 0
    /\ apiKey = NoValue
    /\ request = NoValue
    /\ documents = NoValue
    /\ partitions = <<>>
    /\ stream = NoValue

\* const subQueries = splitQueryIntelligently(query, language)
Split ==
    /\ pc = "split:ready"
    /\ subQueries' = splitQueryIntelligently(query, language)
    /\ pc' = "split:done"
    /\ UNCHANGED <<DEEPSEEK_API_KEYS, query, language, calls, subResults, issued,
                   aggregated, apiResponse, response, retryCount, apiKey,
                   request, documents,
                   partitions, stream>>

SplitNext == Split

SplitSpec == SplitInit /\ [][SplitNext]_vars

(***************************************************************************)
(* Result aggregation: aggregateQueryResults (Netlify) and the merge at    *)
(* the end of processPartitionedQuery (Vercel).                            *)
(*                                                                         *)
(* A response content, a JSON string in the code, is written as the value  *)
(* JSON.parse gives for it, and as NotJSON when JSON.parse throws.  A      *)
(* property that is missing or undefined is Undefined.                     *)
(***************************************************************************)
\* JSON.stringify(obj): a content that parses, to obj.
Json(obj) == [json |-> TRUE, value |-> obj]

\* A content JSON.parse throws on.
NotJSON == [json |-> FALSE]

\* Whether obj.field is there (neither missing nor undefined).
Has(obj, field) == field \in DOMAIN obj

\* A localized message: the language it is written in and its English wording.
Msg(lang, text) == [language |-> IF lang = "ar" THEN "ar" ELSE "en", text |-> text]

\* results.slice(0, 3)
TOP_RESULTS_Four == 3 + 1

TOP_RESULTS == 3

\* (x.score || 0)
ScoreOf(result) == IF Has(result, "score") THEN result.score ELSE 0

RECURSIVE InsertByScore_Unstable(_, _)
\* Mutant: r put before the entries of equal score (the order of ties lost).
InsertByScore_Unstable(sorted, r) ==
    IF sorted = <<>> THEN <<r>>
    ELSE IF ScoreOf(Head(sorted)) > ScoreOf(r)
         THEN <<Head(sorted)>> \o InsertByScore_Unstable(Tail(sorted), r)
         ELSE <<r>> \o sorted

RECURSIVE InsertByScore(_, _)
\* r put behind every entry that does not score lower: a stable insertion.
InsertByScore(sorted, r) ==
    IF sorted = <<>> THEN <<r>>
    ELSE IF ScoreOf(Head(sorted)) >= ScoreOf(r)
         THEN <<Head(sorted)>> \o InsertByScore(Tail(sorted), r)
         ELSE <<r>> \o sorted

RECURSIVE SortByScore(_)
\* list.sort((a, b) => (b.score || 0) - (a.score || 0)); Array.prototype.sort is stable.
SortByScore(list) ==
    IF list = <<>> THEN <<>>
    ELSE InsertByScore(SortByScore(SubSeq(list, 1, Len(list) - 1)), list[Len(list)])

\* The results a response contributes: none when the content does not parse
\* or has no results.
ParsedResults(resp) ==
    IF ~resp.content.json THEN <<>>
    ELSE IF ~Has(resp.content.value, "results") THEN <<>>
    ELSE resp.content.value.results

\* subResults.filter(r => r.status === 'fulfilled' && r.value.success).map(r => r.value.response)
SuccessfulResponses(settled) ==
    LET ok == SelectSeq(settled, LAMBDA r : r.status = "fulfilled" /\ r.value.success)
    IN  [i \in 1..Len(ok) |-> ok[i].value.response]

RECURSIVE FlattenResults(_)
\* The results of the responses, in response order then position.
FlattenResults(responses) ==
    IF responses = <<>> THEN <<>>
    ELSE ParsedResults(Head(responses)) \o FlattenResults(Tail(responses))

\* Mutant: the seenArticles test left out.
DedupByArticle_Off(list, seen, kept) == kept \o list

RECURSIVE DedupByArticle(_, _, _)
\* Netlify: articleKey = result.article_number; seenArticles is a Set.
DedupByArticle(list, seen, kept) ==
    IF list = <<>> THEN kept
    ELSE LET articleKey == IF Has(Head(list), "article_number")
                           THEN Head(list).article_number ELSE Undefined
         IN  IF articleKey \in seen
             THEN DedupByArticle(Tail(list), seen, kept)
             ELSE DedupByArticle(Tail(list), seen \cup {articleKey}, Append(kept, Head(list)))

RECURSIVE DedupByArticleOrPlaceholder(_, _, _)
\* Vercel: articleId = result.article_number || `result_${uniqueResults.length}`.
DedupByArticleOrPlaceholder(list, seen, kept) ==
    IF list = <<>> THEN kept
    ELSE LET articleId == IF Has(Head(list), "article_number")
                          THEN Head(list).article_number
                          ELSE "result_" \o ToString(Len(kept))
         IN  IF articleId \in seen
             THEN DedupByArticleOrPlaceholder(Tail(list), seen, kept)
             ELSE DedupByArticleOrPlaceholder(Tail(list), seen \cup {articleId},
                                              Append(kept, Head(list)))

aggregateQueryResults(settled, originalQuery, lang) ==
    LET successfulResults == SuccessfulResponses(settled)
        allResults == DedupByArticle(FlattenResults(successfulResults), {}, <<>>)
        topResults == SliceTo(SortByScore(allResults), TOP_RESULTS)
    IN  IF Len(successfulResults) = 0
        THEN [content |-> Json([results |-> <<>>,
                                total_results |-> 0,
                                query_language |-> lang,
                                error |-> Msg(lang, "Failed to process query")])]
        ELSE [content |-> Json([results |-> topResults,
                                total_results |-> Len(topResults),
                                query_language |-> lang,
                                partitioned_search |-> TRUE,
                                sub_queries_processed |-> Len(successfulResults)]),
              finish_reason |-> "stop"]

\* Vercel: allResults of the partition loop: the results of every call that
\* resolved with a content that parses and holds a results array.
PartitionResults(outcomes) ==
    LET ok == SelectSeq(outcomes, LAMBDA r : r.status = "fulfilled" /\ r.value.success)
    IN  FlattenResults([i \in 1..Len(ok) |-> ok[i].value.response])

\* Vercel: "Merge and rank results" of processPartitionedQuery.
mergePartitionResults(allResults) ==
    LET uniqueResults == DedupByArticleOrPlaceholder(allResults, {}, <<>>)
    IN  [content |-> Json([results |-> SliceTo(SortByScore(uniqueResults), TOP_RESULTS)]),
         finish_reason |-> "stop"]

(***************************************************************************)
(* The aggregation applied to a list of outcomes (a pure function)         *)
(***************************************************************************)
\* Most results in the outcomes handed to the aggregation.
MaxResults == 4

ArticleNumbers == {"105", "106", "107"}
Scores == {-5, 50}

\* A result of the upstream: article_number and score may be missing; the
\* title tells the results apart.
Result(art, score, title) ==
    CASE art[1] /\ score[1]   -> [article_number |-> art[2], score |-> score[2], title |-> title]
      [] art[1] /\ ~score[1]  -> [article_number |-> art[2], title |-> title]
      [] ~art[1] /\ score[1]  -> [score |-> score[2], title |-> title]
      [] OTHER                -> [title |-> title]

ArticleChoices == {<<FALSE, "">>} \cup {<<TRUE, a>> : a \in ArticleNumbers}
ScoreChoices == {<<FALSE, 0>>} \cup {<<TRUE, v>> : v \in Scores}

\* A result list, titled by position, from the choices f makes.
ResultList(f) == [i \in DOMAIN f |-> Result(f[i][1], f[i][2], i)]

\* What the async callback of processPartitionedQuery returns, as settled
\* by Promise.allSettled.
Fulfilled(subQuery, content) ==
    [status |-> "fulfilled",
     value |-> [subQuery |-> subQuery, response |-> [content |-> content], success |-> TRUE]]

Failed(subQuery, error) ==
    [status |-> "fulfilled",
     value |-> [subQuery |-> subQuery, error |-> error, success |-> FALSE]]

Rejected == [status |-> "rejected", reason |-> "TypeError"]

StreamingError(lang) ==
    [error |-> "Streaming error", message |-> Msg(lang, "Streaming connection error")]

\* Scores 10, 90, 50 on three articles, in one outcome.
ExampleResults ==
    << [article_number |-> "105", score |-> 10, title |-> 1],
       [article_number |-> "106", score |-> 90, title |-> 2],
       [article_number |-> "107", score |-> 50, title |-> 3] >>

\* The outcomes of three sub-queries: the results rs spread over the first
\* and the third, the second one failed or answering something that is no
\* JSON.
SpreadOutcomes(rs, lang) ==
    <<Fulfilled(Word4, Json([results |-> SubSeq(rs, 1, (Len(rs) + 1) \div 2)])),
      IF lang = "ar" THEN Failed(Word3, StreamingError(lang)) ELSE Fulfilled(Word3, NotJSON),
      Fulfilled(Word4, Json([results |-> SubSeq(rs, (Len(rs) + 1) \div 2 + 1, Len(rs))]))>>

AggregateInit ==
    /\ pc = "aggregate:ready"
    /\ language \in Languages
    \* the lists of MaxResults results are aggregated for 'ar' only
    /\ \/ \E n \in 0..MaxResults : \E f \in [1..n -> ArticleChoices \X ScoreChoices] :
              /\ n = MaxResults => language = "ar"
              /\ subResults = SpreadOutcomes(ResultList(f), language)
       \/ subResults = <<Fulfilled(Word4, Json([results |-> ExampleResults]))>>
       \/ \E n \in 1..MaxSubQueries :
              subResults \in [1..n -> {Failed(Word4, StreamingError(language)), Rejected}]
    /\ query = Word4 \o <<SP, WAW, SP>> \o Word3 \o <<SP, WAW, SP>> \o Word4
    /\ aggregated = NoValue
    /\ subQueries = <<>>
    /\ DEEPSEEK_API_KEYS = <<>>
    /\ calls = <<>>
    /\ issued = 0
    /\ apiResponse = NoValue
    /\ response = NoValue
    /\ retryCount = 0
    /\ apiKey = NoValue
    /\ request = NoValue
    /\ documents = NoValue
    /\ partitions = <<>>
    /\ stream = NoValue

\* Netlify: const aggregatedResponse = aggregateQueryResults(subResults, query, language)
AggregateNetlify ==
    /\ pc = "aggregate:ready"
    /\ aggregated' = aggregateQueryResults(subResults, query, language)
    /\ pc' = "aggregate:netlify"
    /\ UNCHANGED <<DEEPSEEK_API_KEYS, query, language, subQueries, calls, subResults,
                   issued, apiResponse, response, retryCount, apiKey,
                   request, documents,
                   partitions, stream>>

\* Vercel: the merge of the partitions' results
AggregateVercel ==
    /\ pc = "aggregate:ready"
    /\ aggregated' = mergePartitionResults(PartitionResults(subResults))
    /\ pc' = "aggregate:vercel"
    /\ UNCHANGED <<DEEPSEEK_API_KEYS, query, language, subQueries, calls, subResults,
                   issued, apiResponse, response, retryCount, apiKey,
                   request, documents,
                   partitions, stream>>

AggregateNext == AggregateNetlify \/ AggregateVercel

AggregateSpec == AggregateInit /\ [][AggregateNext]_vars

(***************************************************************************)
(* The credential pool and getNextApiKey                                   *)
(***************************************************************************)
\* DEEPSEEK_API_KEY, DEEPSEEK_API_KEY_2, DEEPSEEK_API_KEY_3
KEY_SLOTS == 3

\* What an environment variable can hold: nothing, the empty string, a key.
EnvValues == {Undefined, "", "sk-a", "sk-b"}

\* [...].filter(key => key): the entries that are set and not empty.
KeysFromEnv(env) == SelectSeq(env, LAMBDA key : key # Undefined /\ key # "")

\* Mutant: a rotating counter shared by the calls instead of retryCount.
getNextApiKey_Counter(lang, retry) ==
    IF Len(DEEPSEEK_API_KEYS) = 0
    THEN [thrown |-> "No DeepSeek API keys configured"]
    ELSE LET index == IF lang = "ar"
                      THEN (issued + 1) % Len(DEEPSEEK_API_KEYS)
                      ELSE issued % Len(DEEPSEEK_API_KEYS)
         IN  [index |-> index, key |-> DEEPSEEK_API_KEYS[index + 1]]

\* The key returned, with the index it was taken at, or the error thrown.
getNextApiKey(lang, retry) ==
    IF Len(DEEPSEEK_API_KEYS) = 0
    THEN [thrown |-> "No DeepSeek API keys configured"]
    ELSE LET index == IF lang = "ar"
                      THEN (retry + 1) % Len(DEEPSEEK_API_KEYS)
                      ELSE retry % Len(DEEPSEEK_API_KEYS)
         IN  [index |-> index, key |-> DEEPSEEK_API_KEYS[index + 1]]

\* Highest retryCount getNextApiKey is called with.
MaxRetry == 4
\* Most calls of getNextApiKey in a run.
MaxSelections == 3

KeyInit ==
    /\ pc = "key:ready"
    /\ \E env \in [1..KEY_SLOTS -> EnvValues] : DEEPSEEK_API_KEYS = KeysFromEnv(env)
    /\ language = "en"
    /\ retryCount = 0
    /\ issued = 0
    /\ apiKey = NoValue
    /\ query = <<>>
    /\ subQueries = <<>>
    /\ calls = <<>>
    /\ subResults = <<>>
    /\ aggregated = NoValue
    /\ apiResponse = NoValue
    /\ response = NoValue
    /\ request = NoValue
    /\ documents = NoValue
    /\ partitions = <<>>
    /\ stream = NoValue

\* apiKey = getNextApiKey(language, retryCount)
SelectKey ==
    /\ issued < MaxSelections
    /\ \E lang \in Languages, retry \in 0..MaxRetry :
           /\ language' = lang
           /\ retryCount' = retry
           /\ apiKey' = getNextApiKey(lang, retry)
    /\ issued' = issued + 1
    /\ pc' = "key:selected"
    /\ UNCHANGED <<DEEPSEEK_API_KEYS, query, subQueries, calls, subResults, aggregated,
                   apiResponse, response, request, documents,
                   partitions, stream>>

KeyNext == SelectKey

KeySpec == KeyInit /\ [][KeyNext]_vars

(***************************************************************************)
(* The Netlify handler: exports.handler, with the functions it calls       *)
(***************************************************************************)
\* validateRequest: 'Query is too long (maximum 1000 characters)'
MAX_QUERY_LENGTH == 1000

\* usePartitioning = language === 'ar' && query.trim().length > 10
PARTITION_THRESHOLD == 10

LatinLetters ==
    {"a", "b", "c", "d", "e", "f", "g", "h", "i", "j", "k", "l", "m",
     "n", "o", "p", "q", "r", "s", "t", "u", "v", "w", "x", "y", "z",
     "A", "B", "C", "D", "E", "F", "G", "H", "I", "J", "K", "L", "M",
     "N", "O", "P", "Q", "R", "S", "T", "U", "V", "W", "X", "Y", "Z"}

RECURSIVE SpaceLatin(_, _)
\* text.replace(/([a-zA-Z]+)/g, ' $1 '), from position i on.
SpaceLatin(text, i) ==
    IF i > Len(text) THEN <<>>
    ELSE LET latin == text[i] \in LatinLetters
             first == latin /\ (i = 1 \/ text[i - 1] \notin LatinLetters)
             last  == latin /\ (i = Len(text) \/ text[i + 1] \notin LatinLetters)
         IN  (IF first THEN <<SP>> ELSE <<>>) \o <<text[i]>>
                 \o (IF last THEN <<SP>> ELSE <<>>) \o SpaceLatin(text, i + 1)

RECURSIVE NormalizeSpaces(_)
\* text.replace(/\s+/g, ' ')
NormalizeSpaces(text) ==
    IF text = <<>> THEN <<>>
    ELSE IF Head(text) \in WhiteSpace
         THEN IF Len(text) > 1 /\ text[2] \in WhiteSpace
              THEN NormalizeSpaces(Tail(text))
              ELSE <<SP>> \o NormalizeSpaces(Tail(text))
         ELSE <<Head(text)>> \o NormalizeSpaces(Tail(text))

preprocessArabicText(text) ==
    IF text = <<>> THEN <<>> ELSE Trim(NormalizeSpaces(SpaceLatin(text, 1)))

\* The properties of rec among names: a property that is undefined is left
\* out, as JSON.stringify leaves it out of the context sent upstream.
Pick(rec, names) == [f \in (DOMAIN rec \cap names) |-> rec[f]]

\* rec with rec[field] = value.
With(rec, field, value) ==
    [f \in DOMAIN rec \cup {field} |-> IF f = field THEN value ELSE rec[f]]

\* One article of the optimized corpus (Netlify); `key` is the article's key
\* in the object of articles.
optimizeArticle(article, lang) ==
    IF lang = "ar"
    THEN With(Pick(article, {"key", "title", "Time_Penalty_Tables"}), "text",
              preprocessArabicText(IF Has(article, "text") THEN article.text ELSE <<>>))
    ELSE article

\* A corpus is its main key (the first top-level key) with, under it, the
\* articles in key order, and the top-level sections after it.
optimizeDocumentsForArabic(docs, lang) ==
    [mainKey |-> docs.mainKey,
     articles |-> [i \in 1..Len(docs.articles) |-> optimizeArticle(docs.articles[i], lang)]]

\* The property names of the Arabic rule file, written in Arabic there.
AR_TITLE == "ar_title"
AR_TEXT == "ar_text"
AR_TABLES == "ar_Time_Penalty_Tables"

\* a[first] || a[second], when one of them is there.
Either(article, first, second) ==
    IF Has(article, first) THEN article[first] ELSE article[second]

\* One article of the optimized corpus (Vercel).
optimizeArticleVercel(article, lang) ==
    IF lang = "ar"
    THEN LET text == IF Has(article, AR_TEXT) \/ Has(article, "text")
                     THEN Either(article, AR_TEXT, "text") ELSE <<>>
             base == [key |-> article.key, text |-> preprocessArabicText(text)]
             titled == IF Has(article, AR_TITLE) \/ Has(article, "title")
                       THEN With(base, "title", Either(article, AR_TITLE, "title"))
                       ELSE base
         IN  IF Has(article, AR_TABLES) \/ Has(article, "Time_Penalty_Tables")
             THEN With(titled, "Time_Penalty_Tables",
                       Either(article, AR_TABLES, "Time_Penalty_Tables"))
             ELSE titled
    ELSE article

optimizeDocumentsVercel(docs, lang) ==
    [mainKey |-> docs.mainKey,
     articles |-> [i \in 1..Len(docs.articles) |->
                      optimizeArticleVercel(docs.articles[i], lang)]]

\* The rule files as they are read: the articles under the first key, the
\* appendices under the next one.
RuleFile(lang) ==
    IF lang = "ar"
    THEN [mainKey |-> "rules",
          articles |-> << [key |-> "105", title |-> <<KAF>>,
                           text |-> <<KAF, "x", "y", MEEM, SP, SP, ALEF>>, source |-> "pdf"],
                          [key |-> "106", title |-> <<MEEM>>,
                           Time_Penalty_Tables |-> <<10, 20>>],
                          [key |-> "107", ar_title |-> <<YEH>>,
                           ar_text |-> <<YEH, "z", YEH>>] >>,
          appendices |-> << [key |-> "9", title |-> <<ALEF>>] >>]
    ELSE [mainKey |-> "rules",
          articles |-> << [key |-> "105", title |-> <<"a">>, text |-> <<"x", SP, SP, "y">>],
                          [key |-> "106", title |-> <<"b">>, source |-> "pdf"] >>,
          appendices |-> << [key |-> "9", title |-> <<"c">>] >>]

\* loadLegalDocuments: the corpus, or null when require() throws.
Null == [null |-> TRUE]

loadLegalDocuments(lang, readable) == IF readable THEN RuleFile(lang) ELSE Null

RECURSIVE JoinErrors(_)
\* errors.join('; ')
JoinErrors(errors) ==
    IF errors = <<>> THEN ""
    ELSE IF Len(errors) = 1 THEN errors[1]
    ELSE errors[1] \o "; " \o JoinErrors(Tail(errors))

\* A query that is missing or undefined is <<>>, as the empty string: both
\* are falsy and take the same branches.
validateRequest_NoLength(q, lang) ==
    LET errors ==
            (IF Len(Trim(q)) = 0
             THEN <<"Query is required and must be a non-empty string">> ELSE <<>>)
         \o (IF lang \notin {"ar", "en"}
             THEN <<"Language must be either \"ar\" or \"en\"">> ELSE <<>>)
    IN  [isValid |-> errors = <<>>, errors |-> errors]

validateRequest(q, lang) ==
    LET errors ==
            (IF Len(Trim(q)) = 0
             THEN <<"Query is required and must be a non-empty string">> ELSE <<>>)
         \o (IF Len(Trim(q)) > MAX_QUERY_LENGTH
             THEN <<"Query is too long (maximum 1000 characters)">> ELSE <<>>)
         \o (IF lang \notin {"ar", "en"}
             THEN <<"Language must be either \"ar\" or \"en\"">> ELSE <<>>)
    IN  [isValid |-> errors = <<>>, errors |-> errors]

\* An exception: new Error(message), or a rejection object with a message.
Thrown(message) == [thrown |-> TRUE, message |-> message]

IsThrown(v) == "thrown" \in DOMAIN v

\* processSearchResults(apiResponse, language): the body of the success
\* response, or the Error it throws.
processSearchResults(resp, lang) ==
    IF ~IsDefined(resp) \/ ~resp.content.json
    THEN Thrown(Msg("en", "Failed to process search results"))
    ELSE LET results == IF Has(resp.content.value, "results")
                        THEN resp.content.value.results ELSE <<>>
             top == SliceTo(results, TOP_RESULTS)
             processedResults ==
                 [i \in 1..Len(top) |->
                     [id |-> "result_" \o ToString(i - 1),
                      title |-> IF Has(top[i], "title") THEN top[i].title
                                ELSE With(Msg(lang, "Result"), "count", i),
                      content |-> IF Has(top[i], "relevant_text")
                                  THEN top[i].relevant_text ELSE "",
                      highlights |-> IF Has(top[i], "explanation")
                                     THEN <<top[i].explanation>> ELSE <<>>,
                      score |-> ScoreOf(top[i]),
                      source |-> [article |-> IF Has(top[i], "article_number")
                                              THEN top[i].article_number ELSE "Unknown",
                                  section |-> "Legal Rules",
                                  document |-> "ITPF Legal Rules"]]]
         IN  IF Len(results) = 0
             THEN [success |-> TRUE, hasResults |-> FALSE,
                   message |-> Msg(lang, "No matching results found for your query"),
                   results |-> <<>>,
                   metadata |-> [total_results |-> 0, language |-> lang]]
             ELSE [success |-> TRUE, hasResults |-> TRUE,
                   message |-> With(Msg(lang, "Found relevant results"), "count",
                                    Len(processedResults)),
                   results |-> processedResults,
                   metadata |-> [total_results |-> Len(results),
                                 returned_results |-> Len(processedResults),
                                 language |-> lang]]

\* The tail of the handler: processSearchResults on the function-scoped
\* apiResponse, answered with 200, or the catch block's 'Search failed'.
Reply(statusCode, body) == [statusCode |-> statusCode, body |-> body]

SearchFailed(message) ==
    Reply(500, [success |-> FALSE, error |-> "Search failed", message |-> message])

Respond(resp, lang) ==
    LET processedResults == processSearchResults(resp, lang)
    IN  IF IsThrown(processedResults)
        THEN SearchFailed(processedResults.message)
        ELSE Reply(200, processedResults)

\* The queries of the requests: three clauses, two clauses, one long
\* clause, a short one, and white space only.
ThreeClauses == Word4 \o <<SP, WAW, SP>> \o Word3 \o Word4 \o <<SP, WAW, SP>> \o Word4
TwoClauses == Word4 \o <<SP, WAW, SP>> \o Word4
OneClause == Word4 \o Word4 \o Word4
\* A query one character over the limit, and one of exactly the limit
\* between two spaces.
TooLong == [i \in 1..(MAX_QUERY_LENGTH + 1) |-> "a"]

PaddedLongest == <<SP>> \o [i \in 1..MAX_QUERY_LENGTH |-> "a"] \o <<SP>>

HandlerQueries == {ThreeClauses, TwoClauses, OneClause, Word4, <<SP>>}

LanguageTags == {"ar", "en", "fr"}

\* The body of a POST, the query string of a GET.
RequestParams ==
    {[query |-> q, language |-> l] : q \in HandlerQueries, l \in LanguageTags}
        \cup {[query |-> q] : q \in HandlerQueries}
        \cup {[language |-> "ar"], [q |-> TwoClauses, lang |-> "ar"]}
        \cup {[query |-> TooLong, language |-> l] : l \in LanguageTags}
        \cup {[query |-> PaddedLongest, language |-> "en"]}

Events ==
    {[httpMethod |-> "OPTIONS"], [httpMethod |-> "PUT"],
     [httpMethod |-> "POST"], [httpMethod |-> "GET"],
     [httpMethod |-> "POST", body |-> NotJSON]}
        \cup {[httpMethod |-> "POST", body |-> Json(p)] : p \in RequestParams}
        \cup {[httpMethod |-> "GET", queryStringParameters |-> p] : p \in RequestParams}

RECURSIVE FirstOf(_, _, _)
\* p[names[1]] || p[names[2]] || ... || default
FirstOf(p, names, default) ==
    IF names = <<>> THEN default
    ELSE IF Has(p, Head(names)) THEN p[Head(names)]
    ELSE FirstOf(p, Tail(names), default)

\* Mutant: the optimization is written into the loaded corpus.
Step_InPlace(kind, resp, q, lang, docs) ==
    [kind |-> kind, response |-> resp, query |-> q, language |-> lang,
     documents |-> IF Has(docs, "articles") THEN optimizeDocumentsForArabic(docs, lang)
                   ELSE docs]

\* What the handler does up to its first await: the response it returns, or
\* the path it takes with the query, the language and the corpus.
Step(kind, resp, q, lang, docs) ==
    [kind |-> kind, response |-> resp, query |-> q, language |-> lang, documents |-> docs]

HandlerPrefix(event, readable) ==
    IF event.httpMethod = "OPTIONS"
    THEN Step("reply", Reply(200, [empty |-> TRUE]), <<>>, Undefined, NoValue)
    ELSE IF Len(DEEPSEEK_API_KEYS) = 0
    \* `language` is read in its temporal dead zone: a ReferenceError, caught
    THEN Step("reply",
              SearchFailed(Msg("en", "Cannot access 'language' before initialization")),
              <<>>, Undefined, NoValue)
    ELSE IF event.httpMethod = "POST" /\ Has(event, "body") /\ ~event.body.json
    THEN Step("reply",
              Reply(400, [success |-> FALSE, error |-> "Invalid JSON in request body",
                          message |-> Msg("en", "Please provide valid JSON data")]),
              <<>>, Undefined, NoValue)
    ELSE IF event.httpMethod \notin {"POST", "GET"}
    THEN Step("reply",
              Reply(405, [success |-> FALSE, error |-> "Method not allowed",
                          message |-> Msg("en", "Only GET and POST methods are supported")]),
              <<>>, Undefined, NoValue)
    ELSE LET post == event.httpMethod = "POST"
             p == IF post
                  THEN IF Has(event, "body") THEN event.body.value ELSE [none |-> TRUE]
                  ELSE IF Has(event, "queryStringParameters")
                       THEN event.queryStringParameters ELSE [none |-> TRUE]
             q == FirstOf(p, IF post THEN <<"query">> ELSE <<"query", "q">>, <<>>)
             lang == FirstOf(p, IF post THEN <<"language">> ELSE <<"language", "lang">>, "en")
             validation == validateRequest(q, lang)
             docs == loadLegalDocuments(lang, readable)
         IN  IF ~validation.isValid
             THEN Step("reply",
                       Reply(400, [success |-> FALSE, error |-> "Validation failed",
                                   message |-> Msg("en", JoinErrors(validation.errors)),
                                   details |-> validation.errors]),
                       q, lang, NoValue)
             ELSE IF docs = Null
             THEN Step("reply",
                       Reply(500, [success |-> FALSE, error |-> "Document loading error",
                                   message |-> Msg(lang, "Failed to load legal documents")]),
                       q, lang, docs)
             ELSE IF lang = "ar" /\ Len(Trim(q)) > PARTITION_THRESHOLD
             THEN Step("partition", NoValue, q, lang, docs)
             ELSE Step("stream", NoValue, q, lang, docs)

\* The upstream call streamDeepSeekAPI issues for a chat payload.
Call(q, lang, docs) ==
    [query |-> q, language |-> lang,
     documents |-> optimizeDocumentsForArabic(docs, lang),
     apiKey |-> getNextApiKey(lang, 0).key,
     status |-> "pending"]

\* The outcome of a sub-query whose promise has not settled.
Pending == [status |-> "pending"]

\* Mutant: the join goes on as soon as one promise has settled.
AnySettled(outcomes) == \E i \in DOMAIN outcomes : outcomes[i].status # "pending"

\* Promise.allSettled(subPromises) resolves when every promise has settled.
AllSettled(outcomes) == \A i \in DOMAIN outcomes : outcomes[i].status # "pending"

\* What the upstream answers in a stream that completes.
UpstreamContents ==
    {Json([results |-> <<[article_number |-> "105", score |-> 90, title |-> 1]>>]),
     Json([results |-> <<[article_number |-> "106", score |-> 50, title |-> 1],
                         [article_number |-> "105", score |-> 10, title |-> 2]>>]),
     Json([results |-> <<>>]),
     NotJSON}

\* What streamDeepSeekAPI rejects with.
StreamErrors(lang) ==
    {StreamingError(lang),
     [error |-> "Empty stream response", message |-> Msg(lang, "No response received")]}

Init ==
    /\ pc = "handler:start"
    /\ \E env \in [1..KEY_SLOTS -> EnvValues] : DEEPSEEK_API_KEYS = KeysFromEnv(env)
    /\ request \in Events
    /\ query = <<>>
    /\ language = Undefined
    /\ subQueries = <<>>
    /\ calls = <<>>
    /\ subResults = <<>>
    /\ issued = 0
    /\ aggregated = NoValue
    /\ apiResponse = NoValue
    /\ response = NoValue
    /\ retryCount = 0
    /\ apiKey = NoValue
    /\ documents = NoValue
    /\ partitions = <<>>
    /\ stream = NoValue

\* exports.handler up to its first await: a response, or the upstream calls
\* issued (one per sub-query when partitioning, one for the query otherwise).
HandlerStart ==
    /\ pc = "handler:start"
    /\ \E readable \in BOOLEAN :
        LET step == HandlerPrefix(request, readable)
            subQ == IF step.kind = "partition"
                    THEN splitQueryIntelligently(step.query, step.language)
                    ELSE IF step.kind = "stream" THEN <<step.query>> ELSE <<>>
        IN  /\ query' = step.query
            /\ language' = step.language
            /\ documents' = step.documents
            /\ response' = step.response
            /\ pc' = CASE step.kind = "reply"     -> "handler:done"
                       [] step.kind = "partition" -> "handler:awaiting"
                       [] OTHER                   -> "handler:streaming"
            /\ subQueries' = IF step.kind = "partition" THEN subQ ELSE <<>>
            /\ calls' = [i \in 1..Len(subQ) |-> Call(subQ[i], step.language, step.documents)]
            /\ subResults' = IF step.kind = "partition"
                             THEN [i \in 1..Len(subQ) |-> Pending] ELSE <<>>
            /\ issued' = issued + Len(subQ)
            /\ apiKey' = IF subQ = <<>> THEN apiKey ELSE getNextApiKey(step.language, 0)
    /\ UNCHANGED <<DEEPSEEK_API_KEYS, aggregated, apiResponse, retryCount, request,
                   partitions, stream>>

\* The stream of sub-query i completes: its callback returns
\* { subQuery, response, success: true }.
SubQuerySucceeds(i) ==
    /\ pc = "handler:awaiting"
    /\ i \in DOMAIN calls
    /\ calls[i].status = "pending"
    /\ \E content \in UpstreamContents :
           subResults' = [subResults EXCEPT ![i] = Fulfilled(subQueries[i], content)]
    /\ calls' = [calls EXCEPT ![i].status = "resolved"]
    /\ UNCHANGED <<pc, DEEPSEEK_API_KEYS, query, language, subQueries, issued, aggregated,
                   apiResponse, response, retryCount, apiKey, request, documents,
                   partitions, stream>>

\* The stream of sub-query i fails: its callback catches the rejection and
\* returns { subQuery, error, success: false }.
SubQueryFails(i) ==
    /\ pc = "handler:awaiting"
    /\ i \in DOMAIN calls
    /\ calls[i].status = "pending"
    /\ \E error \in StreamErrors(language) :
           subResults' = [subResults EXCEPT ![i] = Failed(subQueries[i], error)]
    /\ calls' = [calls EXCEPT ![i].status = "rejected"]
    /\ UNCHANGED <<pc, DEEPSEEK_API_KEYS, query, language, subQueries, issued, aggregated,
                   apiResponse, response, retryCount, apiKey, request, documents,
                   partitions, stream>>

\* Promise.allSettled resolves; processPartitionedQuery returns the
\* aggregate into the block-scoped `const apiResponse`, and the handler goes
\* on to processSearchResults(apiResponse, language) with the function-scoped
\* `var apiResponse`, which the partition branch never assigns.
JoinAndRespond ==
    /\ pc = "handler:awaiting"
    /\ AllSettled(subResults)
    /\ aggregated' = aggregateQueryResults(subResults, query, language)
    /\ response' = Respond(apiResponse, language)
    /\ pc' = "handler:done"
    /\ UNCHANGED <<DEEPSEEK_API_KEYS, query, language, subQueries, calls, subResults, issued,
                   apiResponse, retryCount, apiKey, request, documents,
                   partitions, stream>>

\* The single streaming call resolves: var apiResponse = await
\* processStreamingResponse(streamResponse), then the response.
StreamResolves ==
    /\ pc = "handler:streaming"
    /\ \E content \in UpstreamContents :
           apiResponse' = [content |-> content, finish_reason |-> "stop"]
    /\ calls' = [calls EXCEPT ![1].status = "resolved"]
    /\ response' = Respond(apiResponse', language)
    /\ pc' = "handler:done"
    /\ UNCHANGED <<DEEPSEEK_API_KEYS, query, language, subQueries, subResults, issued,
                   aggregated, retryCount, apiKey, request, documents,
                   partitions, stream>>

\* The single streaming call rejects: the rejection is thrown at the await
\* and caught by the handler's catch block.
StreamRejects ==
    /\ pc = "handler:streaming"
    /\ \E error \in StreamErrors(language) : response' = SearchFailed(error.message)
    /\ calls' = [calls EXCEPT ![1].status = "rejected"]
    /\ pc' = "handler:done"
    /\ UNCHANGED <<DEEPSEEK_API_KEYS, query, language, subQueries, subResults, issued,
                   aggregated, apiResponse, retryCount, apiKey, request, documents,
                   partitions, stream>>

Next ==
    \/ HandlerStart
    \/ \E i \in 1..MaxSubQueries : SubQuerySucceeds(i)
    \/ \E i \in 1..MaxSubQueries : SubQueryFails(i)
    \/ JoinAndRespond
    \/ StreamResolves
    \/ StreamRejects

Spec == Init /\ [][Next]_vars

(***************************************************************************)
(* The Vercel handler (api/search.js): handler, with the functions it      *)
(* calls.  validateRequest, loadLegalDocuments, getNextApiKey and          *)
(* preprocessArabicText read as in the Netlify function.                   *)
(***************************************************************************)
\* Math.ceil(articleKeys.length / 3)
PARTITION_COUNT_Four == 3 + 1

PARTITION_COUNT == 3

\* shouldUsePartitioning: language === 'ar' && query.trim().length > 8
VERCEL_PARTITION_THRESHOLD == 8

Min(a, b) == IF a < b THEN a ELSE b

\* partitionDocuments: chunks of partitionSize consecutive article keys.
partitionDocuments(docs) ==
    IF ~Has(docs, "articles") THEN <<docs>>
    ELSE LET n == Len(docs.articles)
             partitionSize == (n + PARTITION_COUNT - 1) \div PARTITION_COUNT
         IN  IF n = 0 THEN <<>>
             ELSE [p \in 1..((n + partitionSize - 1) \div partitionSize) |->
                      [mainKey |-> docs.mainKey,
                       articles |-> SubSeq(docs.articles, (p - 1) * partitionSize + 1,
                                           Min(p * partitionSize, n))]]

shouldUsePartitioning(q, lang) == lang = "ar" /\ Len(Trim(q)) > VERCEL_PARTITION_THRESHOLD

\* What the Vercel streamDeepSeekAPI rejects with: a status other than 200,
\* a body without choices, a body that does not parse, a request error, the
\* 60 seconds timeout.
VercelStreamErrors(lang) ==
    {[error |-> "API error", statusCode |-> statusCode,
      message |-> Msg(lang, "Search service error")] : statusCode \in {400, 429, 503}}
        \cup
    {[error |-> "Invalid API response format", message |-> Msg(lang, "Invalid service response")],
     [error |-> "Failed to parse API response", message |-> Msg(lang, "Response parsing error")],
     [error |-> "Request error", message |-> Msg(lang, "Request error")],
     [error |-> "Request timeout after 60 seconds", message |-> Msg(lang, "Request timeout")]}

\* processSearchResults of api/search.js: as the Netlify one, with the
\* platform in the metadata of a non-empty answer.
processSearchResultsVercel(resp, lang) ==
    LET processed == processSearchResults(resp, lang)
    IN  IF IsThrown(processed) \/ ~processed.hasResults THEN processed
        ELSE With(processed, "metadata", With(processed.metadata, "platform", "Vercel Pro"))

VercelSearchFailed(message) ==
    Reply(500, [success |-> FALSE, error |-> "Search failed", message |-> message,
                platform |-> "Vercel Pro"])

VercelRespond(resp, lang) ==
    LET processedResults == processSearchResultsVercel(resp, lang)
    IN  IF IsThrown(processedResults)
        THEN VercelSearchFailed(processedResults.message)
        ELSE Reply(200, processedResults)

\* The requests: req.method, req.body (POST), req.query (GET).
VercelRequests ==
    {[method |-> "OPTIONS"], [method |-> "PUT"], [method |-> "POST"],
     [method |-> "GET", query |-> [none |-> TRUE]]}
        \cup {[method |-> "POST", body |-> p] : p \in RequestParams}
        \cup {[method |-> "GET", query |-> p] : p \in RequestParams}

\* The handler up to its first await.
VercelPrefix(req, readable) ==
    IF req.method = "OPTIONS"
    THEN Step("reply", Reply(200, [empty |-> TRUE]), <<>>, Undefined, NoValue)
    ELSE IF Len(DEEPSEEK_API_KEYS) = 0
    THEN Step("reply",
              Reply(500, [success |-> FALSE, error |-> "API configuration error",
                          message |-> Msg("en", "Search service is not properly configured")]),
              <<>>, Undefined, NoValue)
    ELSE IF req.method = "POST" /\ ~Has(req, "body")
    \* req.body.query on an undefined body: a TypeError, caught
    THEN Step("reply",
              VercelSearchFailed(Msg("en", "Cannot read properties of undefined")),
              <<>>, Undefined, NoValue)
    ELSE IF req.method \notin {"POST", "GET"}
    THEN Step("reply",
              Reply(405, [success |-> FALSE, error |-> "Method not allowed",
                          message |-> Msg("en", "Only GET and POST methods are supported")]),
              <<>>, Undefined, NoValue)
    ELSE LET post == req.method = "POST"
             p == IF post THEN req.body ELSE req.query
             q == FirstOf(p, IF post THEN <<"query">> ELSE <<"query", "q">>, <<>>)
             lang == FirstOf(p, IF post THEN <<"language">> ELSE <<"language", "lang">>, "en")
             validation == validateRequest(q, lang)
             docs == loadLegalDocuments(lang, readable)
         IN  IF ~validation.isValid
             THEN Step("reply",
                       Reply(400, [success |-> FALSE, error |-> "Validation failed",
                                   message |-> Msg("en", JoinErrors(validation.errors)),
                                   details |-> validation.errors]),
                       q, lang, NoValue)
             ELSE IF docs = Null
             THEN Step("reply",
                       Reply(500, [success |-> FALSE, error |-> "Document loading error",
                                   message |-> Msg(lang, "Failed to load legal documents")]),
                       q, lang, docs)
             ELSE IF shouldUsePartitioning(q, lang)
             THEN Step("partition", NoValue, q, lang, docs)
             ELSE Step("single", NoValue, q, lang, docs)

\* The upstream call the Vercel streamDeepSeekAPI issues for a chat payload.
VercelCall(q, lang, docs) ==
    [query |-> q, language |-> lang, documents |-> docs,
     apiKey |-> getNextApiKey(lang, 0).key, status |-> "pending"]

VercelInit ==
    /\ pc = "vercel:start"
    /\ \E env \in [1..KEY_SLOTS -> EnvValues] : DEEPSEEK_API_KEYS = KeysFromEnv(env)
    /\ request \in VercelRequests
    /\ query = <<>>
    /\ language = Undefined
    /\ subQueries = <<>>
    /\ calls = <<>>
    /\ subResults = <<>>
    /\ issued = 0
    /\ aggregated = NoValue
    /\ apiResponse = NoValue
    /\ response = NoValue
    /\ retryCount = 0
    /\ apiKey = NoValue
    /\ documents = NoValue
    /\ partitions = <<>>
    /\ stream = NoValue

\* Mutant: the calls of all partitions are issued at once.
VercelStart_AllAtOnce ==
    /\ pc = "vercel:start"
    /\ \E readable \in BOOLEAN :
        LET step == VercelPrefix(request, readable)
            optimizedDocs == optimizeDocumentsVercel(step.documents, step.language)
            parts == IF step.kind = "partition" THEN partitionDocuments(optimizedDocs)
                     ELSE <<>>
            first == IF step.kind = "partition"
                     THEN [p \in 1..Len(parts) |->
                              VercelCall(step.query, step.language, parts[p])]
                     ELSE IF step.kind = "single"
                     THEN <<VercelCall(step.query, step.language, optimizedDocs)>>
                     ELSE <<>>
        IN  /\ query' = step.query
            /\ language' = step.language
            /\ documents' = step.documents
            /\ response' = step.response
            /\ pc' = CASE step.kind = "reply"     -> "vercel:done"
                       [] step.kind = "partition" -> "vercel:partition"
                       [] OTHER                   -> "vercel:single"
            /\ partitions' = parts
            /\ calls' = first
            /\ issued' = issued + Len(first)
            /\ apiKey' = IF first = <<>> THEN apiKey ELSE getNextApiKey(step.language, 0)
    /\ UNCHANGED <<DEEPSEEK_API_KEYS, subQueries, subResults, aggregated, apiResponse,
                   retryCount, request, stream>>

\* handler up to its first await: a response, or the first upstream call
\* (for the first partition, or for the whole optimized corpus).
VercelStart ==
    /\ pc = "vercel:start"
    /\ \E readable \in BOOLEAN :
        LET step == VercelPrefix(request, readable)
            optimizedDocs == optimizeDocumentsVercel(step.documents, step.language)
            parts == IF step.kind = "partition" THEN partitionDocuments(optimizedDocs)
                     ELSE <<>>
            first == IF step.kind = "partition"
                     THEN <<VercelCall(step.query, step.language, parts[1])>>
                     ELSE IF step.kind = "single"
                     THEN <<VercelCall(step.query, step.language, optimizedDocs)>>
                     ELSE <<>>
        IN  /\ query' = step.query
            /\ language' = step.language
            /\ documents' = step.documents
            /\ response' = step.response
            /\ pc' = CASE step.kind = "reply"     -> "vercel:done"
                       [] step.kind = "partition" -> "vercel:partition"
                       [] OTHER                   -> "vercel:single"
            /\ partitions' = parts
            /\ calls' = first
            /\ issued' = issued + Len(first)
            /\ apiKey' = IF first = <<>> THEN apiKey ELSE getNextApiKey(step.language, 0)
    /\ UNCHANGED <<DEEPSEEK_API_KEYS, subQueries, subResults, aggregated, apiResponse,
                   retryCount, request, stream>>

\* The outcome of the partition call under way is there: the loop issues the
\* call for the next partition, or, after the last one, the results are
\* merged and the handler answers.
PartitionSettles(outcome) ==
    LET outcomes == Append(subResults, outcome)
        last == Len(outcomes) = Len(partitions)
        merged == mergePartitionResults(PartitionResults(outcomes))
    IN  /\ subResults' = outcomes
        /\ IF last
           THEN /\ calls' = [calls EXCEPT ![Len(calls)].status = "settled"]
                /\ aggregated' = merged
                /\ apiResponse' = merged
                /\ response' = VercelRespond(merged, language)
                /\ pc' = "vercel:done"
                /\ UNCHANGED issued
           ELSE /\ calls' = Append([calls EXCEPT ![Len(calls)].status = "settled"],
                                   VercelCall(query, language, partitions[Len(outcomes) + 1]))
                /\ issued' = issued + 1
                /\ UNCHANGED <<aggregated, apiResponse, response, pc>>
        /\ UNCHANGED <<DEEPSEEK_API_KEYS, query, language, subQueries, retryCount, apiKey,
                       request, documents, partitions, stream>>

\* The partition call resolves (status 200, a body with choices).
PartitionResolves ==
    /\ pc = "vercel:partition"
    /\ \E content \in UpstreamContents : PartitionSettles(Fulfilled(query, content))

\* Mutant: the rejection is not caught in the loop and reaches the catch
\* block of the handler.
PartitionRejects_Uncaught ==
    /\ pc = "vercel:partition"
    /\ \E error \in VercelStreamErrors(language) :
           /\ subResults' = Append(subResults, Failed(query, error))
           /\ response' = VercelSearchFailed(error.message)
    /\ calls' = [calls EXCEPT ![Len(calls)].status = "settled"]
    /\ pc' = "vercel:done"
    /\ UNCHANGED <<DEEPSEEK_API_KEYS, query, language, subQueries, issued, aggregated,
                   apiResponse, retryCount, apiKey, request, documents, partitions, stream>>

\* The partition call rejects; the loop catches it and goes on.
PartitionRejects ==
    /\ pc = "vercel:partition"
    /\ \E error \in VercelStreamErrors(language) : PartitionSettles(Failed(query, error))

\* The single call resolves: streamResponse, then the response.
VercelSingleResolves ==
    /\ pc = "vercel:single"
    /\ \E content \in UpstreamContents :
           apiResponse' = [content |-> content, finish_reason |-> "stop"]
    /\ calls' = [calls EXCEPT ![1].status = "settled"]
    /\ response' = VercelRespond(apiResponse', language)
    /\ pc' = "vercel:done"
    /\ UNCHANGED <<DEEPSEEK_API_KEYS, query, language, subQueries, subResults, issued,
                   aggregated, retryCount, apiKey, request, documents, partitions, stream>>

\* The single call rejects: thrown at the await, caught by the catch block.
VercelSingleRejects ==
    /\ pc = "vercel:single"
    /\ \E error \in VercelStreamErrors(language) :
           /\ response' = VercelSearchFailed(error.message)
           /\ calls' = [calls EXCEPT ![1] = With(With(@, "status", "settled"), "error", error)]
    /\ pc' = "vercel:done"
    /\ UNCHANGED <<DEEPSEEK_API_KEYS, query, language, subQueries, subResults, issued,
                   aggregated, apiResponse, retryCount, apiKey, request, documents,
                   partitions, stream>>

VercelNext ==
    \/ VercelStart
    \/ PartitionResolves
    \/ PartitionRejects
    \/ VercelSingleResolves
    \/ VercelSingleRejects

VercelSpec == VercelInit /\ [][VercelNext]_vars

(***************************************************************************)
(* partitionDocuments on corpora of every size (Vercel)                    *)
(***************************************************************************)
MaxArticles == 6

\* The corpus of the source files: 55 articles.
CORPUS_ARTICLES == 55

\* Article i of an optimized corpus, with or without penalty tables.
Article(i, tables) ==
    IF tables
    THEN [key |-> i, title |-> <<KAF>>, text |-> <<MEEM>>, Time_Penalty_Tables |-> <<10>>]
    ELSE [key |-> i, title |-> <<KAF>>, text |-> <<MEEM>>]

\* The optimized corpora partitionDocuments is given: any choice of
\* articles up to MaxArticles, the 55 articles, and a corpus whose main key
\* holds nothing.
Corpora ==
    {[mainKey |-> "rules", articles |-> [i \in 1..n |-> Article(i, tables[i])]] :
        n \in 0..MaxArticles, tables \in [1..MaxArticles -> BOOLEAN]}
        \cup {[mainKey |-> "rules",
               articles |-> [i \in 1..CORPUS_ARTICLES |-> Article(i, i % 5 = 0)]]}
        \cup {[mainKey |-> "rules"]}

PartitionInit ==
    /\ pc = "partition:ready"
    /\ documents \in Corpora
    /\ partitions = <<>>
    /\ DEEPSEEK_API_KEYS = <<>>
    /\ query = <<>>
    /\ language = "ar"
    /\ subQueries = <<>>
    /\ calls = <<>>
    /\ subResults = <<>>
    /\ issued = 0
    /\ aggregated = NoValue
    /\ apiResponse = NoValue
    /\ response = NoValue
    /\ retryCount = 0
    /\ apiKey = NoValue
    /\ request = NoValue
    /\ stream = NoValue

\* const partitions = partitionDocuments(documents)
Partition ==
    /\ pc = "partition:ready"
    /\ partitions' = partitionDocuments(documents)
    /\ pc' = "partition:done"
    /\ UNCHANGED <<DEEPSEEK_API_KEYS, query, language, subQueries, calls, subResults, issued,
                   aggregated, apiResponse, response, retryCount, apiKey, request,
                   documents, stream>>

PartitionNext == Partition

PartitionSpec == PartitionInit /\ [][PartitionNext]_vars

(***************************************************************************)
(* processSearchResults on upstream lists of every length                  *)
(***************************************************************************)
MaxUpstream == 4

\* The result at position i of an upstream list: complete, without article
\* number, or without score.
UpstreamResult(i, kind) ==
    CASE kind = "full"      -> [article_number |-> "105", score |-> 50 + i, title |-> i,
                                relevant_text |-> "text", explanation |-> "why"]
      [] kind = "noArticle" -> [score |-> 50 - i, title |-> i]
      [] OTHER              -> [article_number |-> "106", title |-> i, relevant_text |-> "text"]

UpstreamLists ==
    {[i \in 1..n |-> UpstreamResult(i, kinds[i])] :
        n \in 0..MaxUpstream, kinds \in [1..MaxUpstream -> {"full", "noArticle", "noScore"}]}

\* apiResponse.choices[0].message.content: a JSON text with results, one
\* without, or a text that does not parse.
UpstreamResponses ==
    {[content |-> Json([results |-> list]), finish_reason |-> "stop"] : list \in UpstreamLists}
        \cup {[content |-> Json([note |-> "none"]), finish_reason |-> "stop"],
              [content |-> NotJSON, finish_reason |-> "stop"]}

ProcessInit ==
    /\ pc = "process:ready"
    /\ apiResponse \in UpstreamResponses
    /\ language \in Languages
    /\ response = NoValue
    /\ DEEPSEEK_API_KEYS = <<>>
    /\ query = <<>>
    /\ subQueries = <<>>
    /\ calls = <<>>
    /\ subResults = <<>>
    /\ issued = 0
    /\ aggregated = NoValue
    /\ retryCount = 0
    /\ apiKey = NoValue
    /\ request = NoValue
    /\ documents = NoValue
    /\ partitions = <<>>
    /\ stream = NoValue

\* const processedResults = processSearchResults(apiResponse, language) (Netlify)
ProcessNetlify ==
    /\ pc = "process:ready"
    /\ response' = processSearchResults(apiResponse, language)
    /\ pc' = "process:netlify"
    /\ UNCHANGED <<DEEPSEEK_API_KEYS, query, language, subQueries, calls, subResults, issued,
                   aggregated, apiResponse, retryCount, apiKey, request, documents,
                   partitions, stream>>

\* const processedResults = processSearchResults(streamResponse, language) (Vercel)
ProcessVercel ==
    /\ pc = "process:ready"
    /\ response' = processSearchResultsVercel(apiResponse, language)
    /\ pc' = "process:vercel"
    /\ UNCHANGED <<DEEPSEEK_API_KEYS, query, language, subQueries, calls, subResults, issued,
                   aggregated, apiResponse, retryCount, apiKey, request, documents,
                   partitions, stream>>

ProcessNext == ProcessNetlify \/ ProcessVercel

ProcessSpec == ProcessInit /\ [][ProcessNext]_vars

(***************************************************************************)
(* The two handlers side by side                                           *)
(***************************************************************************)
HandlersInit == Init \/ VercelInit

HandlersNext == Next \/ VercelNext

HandlersSpec == HandlersInit /\ [][HandlersNext]_vars

(***************************************************************************)
(* The non-streaming call with retries: searchDeepSeekAPI (Netlify)        *)
(***************************************************************************)
\* The statuses the upstream answers with.
Statuses == {200, 400, 429, 500, 503}

\* responseBody: empty, a JSON text, or a text JSON.parse throws on.
Bodies == {"empty", "json", "garbage"}

\* The promise of searchDeepSeekAPI, settled.
Resolved(value) == [settled |-> "resolved", value |-> value]

RejectedWith(error) == [settled |-> "rejected", error |-> error]

\* The request searchDeepSeekAPI(payload, language, retry) writes.
Attempt(payload, lang, retry) ==
    [payload |-> payload, retryCount |-> retry,
     keyIndex |-> getNextApiKey(lang, retry).index,
     apiKey |-> getNextApiKey(lang, retry).key,
     status |-> "pending"]

\* retryCount < DEEPSEEK_API_KEYS.length - 1 && (statusCode === 429 || statusCode >= 500)
ShouldRetry(retry, statusCode) ==
    retry < Len(DEEPSEEK_API_KEYS) - 1 /\ (statusCode = 429 \/ statusCode >= 500)

RetryInit ==
    /\ pc = "retry:ready"
    /\ \E env \in [1..KEY_SLOTS -> EnvValues] : DEEPSEEK_API_KEYS = KeysFromEnv(env)
    /\ language \in Languages
    /\ query = Word4
    /\ retryCount = 0
    /\ calls = <<>>
    /\ issued = 0
    /\ apiResponse = NoValue
    /\ apiKey = NoValue
    /\ subQueries = <<>>
    /\ subResults = <<>>
    /\ aggregated = NoValue
    /\ response = NoValue
    /\ request = NoValue
    /\ documents = NoValue
    /\ partitions = <<>>
    /\ stream = NoValue

\* searchDeepSeekAPI(payload, language): the first request, or the
\* rejection when there is no key.
RetryStart ==
    /\ pc = "retry:ready"
    /\ IF Len(DEEPSEEK_API_KEYS) = 0
       THEN /\ apiResponse' = RejectedWith([error |-> "No API keys available",
                                            message |-> Msg(language,
                                                "Service configuration error. Please try later.")])
            /\ pc' = "retry:done"
            /\ UNCHANGED <<calls, issued, apiKey>>
       ELSE /\ calls' = <<Attempt(query, language, 0)>>
            /\ issued' = 1
            /\ apiKey' = getNextApiKey(language, 0)
            /\ pc' = "retry:awaiting"
            /\ UNCHANGED apiResponse
    /\ UNCHANGED <<DEEPSEEK_API_KEYS, query, language, subQueries, subResults, aggregated,
                   response, retryCount, request, documents, partitions, stream>>

\* res.on('end'): the response of the request under way is complete.
ResponseEnds ==
    /\ pc = "retry:awaiting"
    /\ \E statusCode \in Statuses, body \in Bodies :
        LET answered == [calls EXCEPT ![Len(calls)] =
                            With(With(With(@, "status", "answered"),
                                      "statusCode", statusCode), "body", body)]
        IN  IF body = "garbage"
            THEN /\ apiResponse' = RejectedWith([statusCode |-> statusCode,
                                                 error |-> "Failed to parse API response",
                                                 message |-> Msg(language,
                                                     "Error processing results. Please try later.")])
                 /\ calls' = answered
                 /\ pc' = "retry:done"
                 /\ UNCHANGED <<retryCount, issued, apiKey>>
            ELSE IF statusCode >= 200 /\ statusCode < 300
            THEN /\ apiResponse' = Resolved([body |-> body])
                 /\ calls' = answered
                 /\ pc' = "retry:done"
                 /\ UNCHANGED <<retryCount, issued, apiKey>>
            ELSE IF ShouldRetry(retryCount, statusCode)
            THEN /\ calls' = Append(answered, Attempt(query, language, retryCount + 1))
                 /\ retryCount' = retryCount + 1
                 /\ issued' = issued + 1
                 /\ apiKey' = getNextApiKey(language, retryCount + 1)
                 /\ UNCHANGED <<apiResponse, pc>>
            ELSE /\ apiResponse' = RejectedWith([statusCode |-> statusCode,
                                                 error |-> "Search request failed",
                                                 message |-> Msg(language,
                                                     "Search error occurred. Please try again.")])
                 /\ calls' = answered
                 /\ pc' = "retry:done"
                 /\ UNCHANGED <<retryCount, issued, apiKey>>
    /\ UNCHANGED <<DEEPSEEK_API_KEYS, query, language, subQueries, subResults, aggregated,
                   response, request, documents, partitions, stream>>

\* req.on('error'): the request under way fails on the network.
NetworkError ==
    /\ pc = "retry:awaiting"
    /\ apiResponse' = RejectedWith([error |-> "Network error",
                                    message |-> Msg(language,
                                        "Connection error. Please check your internet connection.")])
    /\ calls' = [calls EXCEPT ![Len(calls)] = With(@, "status", "error")]
    /\ pc' = "retry:done"
    /\ UNCHANGED <<DEEPSEEK_API_KEYS, query, language, subQueries, subResults, issued,
                   aggregated, response, retryCount, apiKey, request, documents,
                   partitions, stream>>

\* req.setTimeout(REQUEST_TIMEOUT, ...): the request under way times out.
RequestTimeout ==
    /\ pc = "retry:awaiting"
    /\ apiResponse' = RejectedWith([error |-> "Request timeout",
                                    message |-> Msg(language, "Search timeout. Please try again.")])
    /\ calls' = [calls EXCEPT ![Len(calls)] = With(@, "status", "timeout")]
    /\ pc' = "retry:done"
    /\ UNCHANGED <<DEEPSEEK_API_KEYS, query, language, subQueries, subResults, issued,
                   aggregated, response, retryCount, apiKey, request, documents,
                   partitions, stream>>

RetryNext == RetryStart \/ ResponseEnds \/ NetworkError \/ RequestTimeout

RetrySpec == RetryInit /\ [][RetryNext]_vars

(***************************************************************************)
(* The streaming call: streamDeepSeekAPI (Netlify)                         *)
(***************************************************************************)
MaxFrames == 2

\* The pieces of the byte stream: the field name of an SSE event, the line
\* feed (two of them end an event), the sentinel, and the two halves of the
\* JSON text of a frame.
PFX == "data: "
NL == "\n"
DONE == "[DONE]"
Open(k) == "{" \o k
Close(k) == k \o "}"

\* The frame carrying the fragment k in delta.content; the frame with
\* finish_reason "stop" and an empty delta; the sentinel.
Frame(k) == <<PFX, Open(k), Close(k), NL, NL>>
StopFrame == Frame("stop")
DoneFrame == <<PFX, DONE, NL, NL>>

Fragments(n) == [i \in 1..n |-> ToString(i)]

\* What the upstream sends: content frames, then a stop frame, the
\* sentinel, both, or nothing more.
Streams ==
    {[sent |-> Fragments(n),
      bytes |-> Flatten([i \in 1..n |-> Frame(ToString(i))]) \o tail] :
        n \in 0..MaxFrames,
        tail \in {<<>>, StopFrame, DoneFrame, StopFrame \o DoneFrame}}

FrameIds == {"stop"} \cup {ToString(i) : i \in 1..(MaxFrames + 1)}

\* JSON.parse(data): the frame whose text data is, white space around it
\* allowed; a SyntaxError otherwise.
ParseFrame(data) ==
    IF \E k \in FrameIds : Trim(data) = <<Open(k), Close(k)>>
    THEN [ok |-> TRUE, id |-> CHOOSE k \in FrameIds : Trim(data) = <<Open(k), Close(k)>>]
    ELSE [ok |-> FALSE, id |-> ""]

\* The callback of events.forEach on one event; acc is lastEventData, the
\* promise, and what has been recognised so far.
OnEvent(acc, event) ==
    IF event = <<>> \/ Head(event) # PFX THEN acc
    ELSE LET data == Tail(event)
             parsed == ParseFrame(data)
         IN  IF data = <<DONE>> THEN [acc EXCEPT !.sawDone = TRUE]
             ELSE IF Trim(data) = <<>> \/ ~parsed.ok THEN acc
             ELSE IF parsed.id = "stop"
             THEN [acc EXCEPT !.sawStop = TRUE,
                              !.promise = IF acc.promise = NoValue
                                          THEN Resolved([content |-> acc.lastEventData,
                                                         finish_reason |-> "stop"])
                                          ELSE acc.promise]
             ELSE [acc EXCEPT !.lastEventData = Append(acc.lastEventData, parsed.id)]

RECURSIVE OnEvents(_, _)
OnEvents(acc, events) ==
    IF events = <<>> THEN acc ELSE OnEvents(OnEvent(acc, Head(events)), Tail(events))

\* res.on('data'): the events of this chunk alone, chunkStr.split('\n\n').
OnData(acc, chunk) == OnEvents(acc, StrSplit(chunk, <<NL, NL>>))

StreamInit ==
    /\ pc = "stream:open"
    /\ \E s \in Streams :
           stream = [sent |-> s.sent, rest |-> s.bytes, lastEventData |-> <<>>,
                     sawDone |-> FALSE, sawStop |-> FALSE]
    /\ language \in Languages
    /\ apiResponse = NoValue
    /\ DEEPSEEK_API_KEYS = <<"sk-a">>
    /\ query = <<>>
    /\ subQueries = <<>>
    /\ calls = <<>>
    /\ subResults = <<>>
    /\ issued = 1
    /\ aggregated = NoValue
    /\ response = NoValue
    /\ retryCount = 0
    /\ apiKey = NoValue
    /\ request = NoValue
    /\ documents = NoValue
    /\ partitions = <<>>

\* res.on('data', chunk): the next bytes arrive, in a chunk of any length.
StreamData ==
    /\ pc = "stream:open"
    /\ \E n \in 1..Len(stream.rest) :
        LET acc == OnData([lastEventData |-> stream.lastEventData, promise |-> apiResponse,
                           sawDone |-> stream.sawDone, sawStop |-> stream.sawStop],
                          SubSeq(stream.rest, 1, n))
        IN  /\ stream' = [stream EXCEPT !.rest = SubSeq(stream.rest, n + 1, Len(stream.rest)),
                                        !.lastEventData = acc.lastEventData,
                                        !.sawDone = acc.sawDone,
                                        !.sawStop = acc.sawStop]
            /\ apiResponse' = acc.promise
    /\ UNCHANGED <<pc, DEEPSEEK_API_KEYS, query, language, subQueries, calls, subResults,
                   issued, aggregated, response, retryCount, apiKey, request, documents,
                   partitions>>

\* res.on('end'): every byte has arrived.
StreamEnd ==
    /\ pc = "stream:open"
    /\ stream.rest = <<>>
    /\ apiResponse' = IF apiResponse # NoValue THEN apiResponse
                      ELSE IF stream.lastEventData # <<>>
                      THEN Resolved([content |-> stream.lastEventData,
                                     finish_reason |-> "stop"])
                      ELSE RejectedWith([error |-> "Empty stream response",
                                         message |-> Msg(language, "No response received")])
    /\ pc' = "stream:closed"
    /\ UNCHANGED <<DEEPSEEK_API_KEYS, query, language, subQueries, calls, subResults, issued,
                   aggregated, response, retryCount, apiKey, request, documents,
                   partitions, stream>>

\* req.on('error'): the connection fails.
StreamError ==
    /\ pc = "stream:open"
    /\ apiResponse' = IF apiResponse # NoValue THEN apiResponse
                      ELSE RejectedWith(StreamingError(language))
    /\ pc' = "stream:closed"
    /\ UNCHANGED <<DEEPSEEK_API_KEYS, query, language, subQueries, calls, subResults, issued,
                   aggregated, response, retryCount, apiKey, request, documents,
                   partitions, stream>>

StreamNext == StreamData \/ StreamEnd \/ StreamError

StreamSpec == StreamInit /\ [][StreamNext]_vars

(***************************************************************************)
(* The script that splits a rule file into three parts                     *)
(***************************************************************************)
MaxFileArticles == 3

MaxFileAppendices == 2

\* Article numbers at and around the limits of the three ranges, and
\* appendix numbers.
FileArticleNumbers == {99, 100, 118, 119, 136, 137, 154, 155}
FileAppendixNumbers == {9, 10, 11}

\* A rule file with the article numbers a and the appendix numbers b; the
\* entries are told apart by position.
RuleFileWith(a, b) ==
    [articles |-> [i \in DOMAIN a |-> [article_number |-> a[i], title |-> i]],
     appendices |-> [i \in DOMAIN b |-> [appendix_number |-> b[i], title |-> i]]]

\* articles.filter(a => a.article_number >= low && a.article_number <= high)
InRange(articles, low, high) ==
    SelectSeq(articles, LAMBDA a : a.article_number >= low /\ a.article_number <= high)

splitArticles(articles) ==
    [part1 |-> InRange(articles, 100, 118),
     part2 |-> InRange(articles, 119, 136),
     part3 |-> InRange(articles, 137, 154)]

\* [appendices.find(a => a.appendix_number === number)].filter(Boolean)
FindAppendix(appendices, number) ==
    LET found == SelectSeq(appendices, LAMBDA a : a.appendix_number = number)
    IN  IF found = <<>> THEN <<>> ELSE <<Head(found)>>

\* The three part files written for a rule file.
PartFiles(data) ==
    LET parts == splitArticles(data.articles)
    IN  << [articles |-> parts.part1, appendices |-> <<>>],
           [articles |-> parts.part2, appendices |-> <<>>],
           [articles |-> parts.part3,
            appendices |-> FindAppendix(data.appendices, 9)
                               \o FindAppendix(data.appendices, 10)] >>

FileInit ==
    /\ pc = "file:read"
    /\ \E n \in 0..MaxFileArticles, k \in 0..MaxFileAppendices :
           \E a \in [1..n -> FileArticleNumbers], b \in [1..k -> FileAppendixNumbers] :
               documents = RuleFileWith(a, b)
    /\ language \in Languages
    /\ partitions = <<>>
    /\ DEEPSEEK_API_KEYS = <<>>
    /\ query = <<>>
    /\ subQueries = <<>>
    /\ calls = <<>>
    /\ subResults = <<>>
    /\ issued = 0
    /\ aggregated = NoValue
    /\ apiResponse = NoValue
    /\ response = NoValue
    /\ retryCount = 0
    /\ apiKey = NoValue
    /\ request = NoValue
    /\ stream = NoValue

\* The parts of the rule file are built and written.
WriteParts ==
    /\ pc = "file:read"
    /\ partitions' = PartFiles(documents)
    /\ pc' = "file:written"
    /\ UNCHANGED <<DEEPSEEK_API_KEYS, query, language, subQueries, calls, subResults, issued,
                   aggregated, apiResponse, response, retryCount, apiKey, request,
                   documents, stream>>

FileNext == WriteParts

FileSpec == FileInit /\ [][FileNext]_vars

(***************************************************************************)
(* The search page (class ITTPFLegalSearch).  Two versions of the page are *)
(* in the repository: the one of part_001, with one cache keyed by query   *)
(* and language, and the one of rebuild_complete_json.cjs, with a search   *)
(* and an answer cache keyed by query, language, mode and cache version.   *)
(* Here `language` is this.currentLanguage, `query` the text of the search *)
(* field, `request` the other fields of the object, `documents` its        *)
(* caches, `calls` the fetches in flight, `issued` the number of fetches   *)
(* issued and `response` what the page shows.                              *)
(***************************************************************************)
MaxInFlight == 1
MaxSearches == 1

CACHE_LIMIT == 50
MIN_QUERY_CHARS == 3
cacheVersion == "12.1"

Pages == {"part_001", "rebuild"}
Modes == {"search", "answer"}

Digits == <<"0", "1", "2", "3", "4", "5", "6", "7", "8", "9">>

\* The query of the i-th search made before the model starts.
EarlierQuery(i) == <<"f", Digits[(i \div 10) + 1], Digits[(i % 10) + 1]>>

\* The texts the user types into the search field.
TypedTexts == { <<SP, "a", "b">>, <<SP, "a", "b", "c", SP>>, EarlierQuery(1) }

\* `${query}-${language}` and `${query}-${language}-${mode}-${version}`
CacheKey(page, q, lang, mode) ==
    IF page = "part_001" THEN <<q, lang>> ELSE <<q, lang, mode, cacheVersion>>

\* A Map is the sequence of its entries in insertion order.
MapHas(cache, key) == \E i \in 1..Len(cache) : cache[i].key = key

MapGet(cache, key) == cache[CHOOSE i \in 1..Len(cache) : cache[i].key = key].value

\* Map.prototype.set: a key already present keeps its place.
MapSet(cache, key, value) ==
    IF MapHas(cache, key)
    THEN [i \in 1..Len(cache) |->
             IF cache[i].key = key THEN [key |-> key, value |-> value] ELSE cache[i]]
    ELSE Append(cache, [key |-> key, value |-> value])

MapDelete(cache, key) == SelectSeq(cache, LAMBDA e : e.key # key)

\* if (cache.size > 50) cache.delete(cache.keys().next().value), deleting the
\* newest key instead
LimitCache_Newest(cache) ==
    IF Len(cache) > CACHE_LIMIT THEN MapDelete(cache, cache[Len(cache)].key) ELSE cache

\* if (cache.size > 50) cache.delete(cache.keys().next().value)
LimitCache(cache) ==
    IF Len(cache) > CACHE_LIMIT THEN MapDelete(cache, cache[1].key) ELSE cache

\* const cache = this.currentMode === 'search' ? this.searchCache : this.answerCache
CacheName(page, mode) ==
    IF page = "part_001" \/ mode = "search" THEN "searchCache" ELSE "answerCache"

\* The body received for a request, tagged with the request it answers and
\* with whether it came with a status that is ok.
BodyFor(call, ok, success) ==
    IF success = "missing" THEN [answers |-> call, ok |-> ok]
    ELSE [success |-> (success = "true"), answers |-> call, ok |-> ok]

\* What becomes of a fetch: the fetch or response.json() rejects, or a body
\* arrives with a status that is ok or not.
FetchOutcomes(call) ==
    {[kind |-> "rejected"]}
        \cup { [kind |-> "response", ok |-> ok, data |-> BodyFor(call, ok, success)] :
                   ok \in BOOLEAN, success \in {"true", "false", "missing"} }

\* Every outcome with a body is kept.
Succeeded_AnyBody(outcome) == outcome.kind = "response"

\* Neither `!response.ok` nor `!data.success` throws.
Succeeded(outcome) ==
    /\ outcome.kind = "response"
    /\ outcome.ok
    /\ Has(outcome.data, "success") /\ outcome.data.success = TRUE

\* A cache after n earlier successful searches in English.
EarlierCache(page, mode, n) ==
    [i \in 1..n |->
        LET call == [query |-> EarlierQuery(i), language |-> "en", mode |-> mode]
        IN  [key |-> CacheKey(page, call.query, "en", mode),
             value |-> BodyFor(call, TRUE, "true")]]

EarlierSizes == {0, CACHE_LIMIT - 1, CACHE_LIMIT}

FrontendInit ==
    /\ pc = "page:ready"
    /\ language \in Languages
    /\ query = <<>>
    /\ \E page \in Pages, mode \in Modes, n \in EarlierSizes :
           /\ page = "part_001" => mode = "search"
           /\ request = [page |-> page, currentMode |-> mode, isSearching |-> FALSE]
           /\ documents =
                  IF page = "part_001"
                  THEN [searchCache |-> EarlierCache(page, "search", n)]
                  ELSE [searchCache |-> EarlierCache(page, "search", n),
                        answerCache |-> EarlierCache(page, "answer", n)]
    /\ calls = <<>>
    /\ issued = 0
    /\ response = NoValue
    /\ DEEPSEEK_API_KEYS = <<>>
    /\ subQueries = <<>>
    /\ subResults = <<>>
    /\ aggregated = NoValue
    /\ apiResponse = NoValue
    /\ retryCount = 0
    /\ apiKey = NoValue
    /\ partitions = <<>>
    /\ stream = NoValue

\* The user edits the search field.
InputText(text) ==
    /\ pc = "page:ready"
    /\ text # query
    /\ query' = text
    /\ UNCHANGED <<pc, DEEPSEEK_API_KEYS, language, subQueries, calls, subResults, issued,
                   aggregated, apiResponse, response, retryCount, apiKey, request,
                   documents, partitions, stream>>

\* switchLanguage(lang)
switchLanguage(lang) ==
    /\ pc = "page:ready"
    /\ lang # language
    /\ language' = lang
    /\ UNCHANGED <<pc, DEEPSEEK_API_KEYS, query, subQueries, calls, subResults, issued,
                   aggregated, apiResponse, response, retryCount, apiKey, request,
                   documents, partitions, stream>>

\* switchMode(mode), of the page with modes
switchMode(mode) ==
    /\ pc = "page:ready"
    /\ request.page = "rebuild"
    /\ mode # request.currentMode
    /\ request' = [request EXCEPT !.currentMode = mode]
    /\ UNCHANGED <<pc, DEEPSEEK_API_KEYS, query, language, subQueries, calls, subResults,
                   issued, aggregated, apiResponse, response, retryCount, apiKey,
                   documents, partitions, stream>>

\* displayResults(data) or displayAnswer(data)
Shown(page, mode, data) ==
    [shown |-> IF page = "part_001" \/ mode = "search" THEN "results" ELSE "answer",
     data |-> data]

\* handleSearch(), up to the fetch of performSearch
handleSearch ==
    /\ pc = "page:ready"
    /\ LET q == Trim(query)
           page == request.page
           mode == request.currentMode
           cache == documents[CacheName(page, mode)]
           cacheKey == CacheKey(page, q, language, mode)
       IN  IF q = <<>> \/ Len(q) < MIN_QUERY_CHARS
           THEN /\ response' = [shown |-> "error", message |-> "validation"]
                /\ UNCHANGED <<calls, issued, request>>
           ELSE IF MapHas(cache, cacheKey)
           THEN /\ response' = Shown(page, mode, MapGet(cache, cacheKey))
                /\ UNCHANGED <<calls, issued, request>>
           ELSE /\ Len(calls) < MaxInFlight
                /\ issued < MaxSearches
                /\ request' = [request EXCEPT !.isSearching = TRUE]
                /\ response' = [shown |-> "loading"]
                /\ calls' = Append(calls, [query |-> q, language |-> language, mode |-> mode])
                /\ issued' = issued + 1
    /\ UNCHANGED <<pc, DEEPSEEK_API_KEYS, query, language, subQueries, subResults,
                   aggregated, apiResponse, retryCount, apiKey, documents, partitions,
                   stream>>

\* The rest of performSearch(query), once the fetch of the i-th call in flight
\* and response.json() have settled.
performSearchContinues(i, outcome) ==
    /\ pc = "page:ready"
    /\ i \in 1..Len(calls)
    /\ LET call == calls[i]
           page == request.page
           mode == request.currentMode
           name == CacheName(page, mode)
           cacheKey == CacheKey(page, call.query, language, mode)
       IN  /\ outcome \in FetchOutcomes(call)
           /\ IF Succeeded(outcome)
              THEN /\ documents' =
                          [documents EXCEPT
                              ![name] = LimitCache(MapSet(@, cacheKey, outcome.data))]
                   /\ response' = Shown(page, mode, outcome.data)
              ELSE /\ response' = [shown |-> "error", message |-> "search"]
                   /\ UNCHANGED documents
    /\ calls' = [j \in 1..(Len(calls) - 1) |-> IF j < i THEN calls[j] ELSE calls[j + 1]]
    /\ request' = [request EXCEPT !.isSearching = FALSE]
    /\ UNCHANGED <<pc, DEEPSEEK_API_KEYS, query, language, subQueries, subResults, issued,
                   aggregated, apiResponse, retryCount, apiKey, partitions, stream>>

FrontendNext ==
    \/ \E text \in TypedTexts : InputText(text)
    \/ \E lang \in Languages : switchLanguage(lang)
    \/ \E mode \in Modes : switchMode(mode)
    \/ handleSearch
    \/ \E i \in 1..MaxInFlight :
           \E outcome \in FetchOutcomes(IF i <= Len(calls) THEN calls[i] ELSE NoValue) :
               performSearchContinues(i, outcome)

FrontendSpec == FrontendInit /\ [][FrontendNext]_vars

(***************************************************************************)
(* Properties of the splitter.  They are stated with their own string      *)
(* helpers, not with the operators the splitter is built from.             *)
(***************************************************************************)
Contains(s, sep) ==
    \E i \in 1..Len(s) : i + Len(sep) - 1 <= Len(s) /\ SubSeq(s, i, i + Len(sep) - 1) = sep

IsTrimmed(s) == s = <<>> \/ (s[1] \notin WhiteSpace /\ s[Len(s)] \notin WhiteSpace)

\* The characters of s that are not white space, in order.
Squeeze(s) == SelectSeq(s, LAMBDA c : c \notin WhiteSpace)

\* Length of s without its leading and trailing white space.
TrimmedLen(s) ==
    IF Squeeze(s) = <<>> THEN 0
    ELSE LET ix == {i \in 1..Len(s) : s[i] \notin WhiteSpace}
             lo == CHOOSE i \in ix : \A j \in ix : i <= j
             hi == CHOOSE i \in ix : \A j \in ix : i >= j
         IN  hi - lo + 1

RECURSIVE JoinWith(_, _)
JoinWith(parts, sep) ==
    IF Len(parts) = 0 THEN <<>>
    ELSE IF Len(parts) = 1 THEN parts[1]
    ELSE parts[1] \o sep \o JoinWith(Tail(parts), sep)

RECURSIVE CountFrom(_, _, _)
\* Occurrences of sep in s from index i on, scanning left to right without overlap.
CountFrom(s, sep, i) ==
    IF i + Len(sep) - 1 > Len(s) THEN 0
    ELSE IF \A k \in 1..Len(sep) : s[i + k - 1] = sep[k]
         THEN 1 + CountFrom(s, sep, i + Len(sep))
         ELSE CountFrom(s, sep, i + 1)

HasConnector(q, lang) ==
    IF lang = "ar"
    THEN \E k \in 1..Len(arabicSplitters) : Contains(q, arabicSplitters[k])
    ELSE Contains(q, EnglishSeparator)

\* C6 (as claimed): for every query and either language the splitter returns
\* between 1 and 4 sub-queries, each non-empty and longer than 2 characters.
C6_Original ==
    pc = "split:done" =>
        /\ Len(subQueries) >= 1
        /\ Len(subQueries) <= 4
        /\ \A i \in 1..Len(subQueries) :
               subQueries[i] # <<>> /\ Len(subQueries[i]) > 2

\* C6 (amended): the splitter always returns at least one sub-query; for an
\* Arabic query it returns at most 3, and when the trimmed Arabic query is
\* longer than 2 characters every sub-query is non-empty with trimmed length
\* above 2.  English parts are neither filtered by length nor capped.
C6_Amended ==
    pc = "split:done" =>
        /\ Len(subQueries) >= 1
        /\ language = "ar" =>
              /\ Len(subQueries) <= 3
              /\ TrimmedLen(query) > 2 =>
                    \A i \in 1..Len(subQueries) :
                        subQueries[i] # <<>> /\ TrimmedLen(subQueries[i]) > 2

\* Four fragments survive the connector passes and are cut down to three.
C6_Witness ==
    /\ pc = "split:done"
    /\ language = "ar"
    /\ query = Word4 \o <<WAW>> \o Word4 \o <<WAW>> \o Word4 \o <<WAW>> \o Word4
    /\ subQueries = <<Word4, Word4, Word4>>

\* C7 (as claimed): a query without any connector of its language gives
\* exactly one sub-query, equal to the trimmed query.
C7_Original ==
    (pc = "split:done" /\ ~HasConnector(query, language)) =>
        /\ Len(subQueries) = 1
        /\ Squeeze(subQueries[1]) = Squeeze(query)
        /\ IsTrimmed(subQueries[1])

\* C7 (amended): a query without any connector of its language gives exactly
\* one sub-query, equal to the query as received (white space included).
C7_Amended ==
    (pc = "split:done" /\ ~HasConnector(query, language)) =>
        /\ Len(subQueries) = 1
        /\ subQueries[1] = query

\* A connector-free Arabic query with surrounding white space, returned as is.
C7_Witness ==
    /\ pc = "split:done"
    /\ language = "ar"
    /\ query = <<SP>> \o Word4 \o <<SP>>
    /\ ~HasConnector(query, language)
    /\ subQueries = <<query>>

\* C8: an English query containing " and " gives the parts between the
\* separators, trimmed and in order; without the separator the query is
\* returned unchanged as the only element.
C8_EnglishSplit ==
    (pc = "split:done" /\ language = "en") =>
        IF Contains(query, EnglishSeparator)
        THEN /\ Len(subQueries) = CountFrom(query, EnglishSeparator, 1) + 1
             /\ \A i \in 1..Len(subQueries) :
                    IsTrimmed(subQueries[i]) /\ ~Contains(subQueries[i], EnglishSeparator)
             /\ Squeeze(JoinWith(subQueries, EnglishSeparator)) = Squeeze(query)
             /\ query = HorsesAndRiders => subQueries = <<RulesForHorses, RulesForRiders>>
        ELSE subQueries = <<query>>

C8_Witness ==
    /\ pc = "split:done"
    /\ language = "en"
    /\ query = HorsesAndRiders
    /\ subQueries = <<RulesForHorses, RulesForRiders>>

\* s without its leading and trailing white space.
Stripped(s) ==
    IF Squeeze(s) = <<>> THEN <<>>
    ELSE LET ix == {i \in 1..Len(s) : s[i] \notin WhiteSpace}
             lo == CHOOSE i \in ix : \A j \in ix : i <= j
             hi == CHOOSE i \in ix : \A j \in ix : i >= j
         IN  [k \in 1..(hi - lo + 1) |-> s[lo + k - 1]]

\* A clause: text longer than 3 characters (white space around it aside)
\* holding no connector token itself; text that holds one is split further
\* and counts as several clauses.
IsClause(c) == TrimmedLen(c) > 3 /\ ~HasConnector(c, "ar")

\* The positions of a WAW that joins two clauses of q.
ClauseJoints(q) ==
    {i \in 2..(Len(q) - 1) :
        /\ q[i] = WAW
        /\ IsClause(SubSeq(q, 1, i - 1))
        /\ IsClause(SubSeq(q, i + 1, Len(q)))}

Aggregated == pc \in {"aggregate:netlify", "aggregate:vercel"}

\* The result list of the aggregated response.
Output == aggregated.content.value.results

RECURSIVE InputResults(_)
\* The results of the successful outcomes in flattening order: outcome
\* order, then position inside the outcome.
InputResults(settled) ==
    IF settled = <<>> THEN <<>>
    ELSE LET r == Head(settled)
             contributes ==
                 /\ r.status = "fulfilled"
                 /\ r.value.success
                 /\ r.value.response.content.json
                 /\ "results" \in DOMAIN r.value.response.content.value
         IN  (IF contributes THEN r.value.response.content.value.results ELSE <<>>)
                 \o InputResults(Tail(settled))

HasArticle(r) == "article_number" \in DOMAIN r

SameArticle(a, b) == HasArticle(a) /\ HasArticle(b) /\ a.article_number = b.article_number

\* C3: the aggregated list holds no two entries with the same
\* article_number, and an entry with an article_number is the first result
\* with it in flattening order, whole (no field taken from a later one).
C3_Dedup ==
    Aggregated =>
        LET flat == InputResults(subResults)
        IN  /\ \A i, j \in 1..Len(Output) :
                   i # j => ~SameArticle(Output[i], Output[j])
            /\ \A i \in 1..Len(Output) :
                   HasArticle(Output[i]) =>
                       \E p \in 1..Len(flat) :
                           /\ flat[p] = Output[i]
                           /\ \A e \in 1..(p - 1) : ~SameArticle(flat[e], flat[p])

\* Article 105 comes in the first and in the third outcome, with different
\* scores; the output holds it once, as the first outcome gave it.
C3_Witness ==
    /\ pc = "aggregate:netlify"
    /\ Len(subResults) = 3
    /\ LET flat == InputResults(subResults)
       IN  /\ Len(flat) = 4
           /\ SameArticle(flat[1], flat[3])
           /\ flat[1].article_number = "105"
           /\ ~HasArticle(flat[2]) /\ ~HasArticle(flat[4])
           /\ "score" \in DOMAIN flat[1] /\ flat[1].score = -5
           /\ "score" \in DOMAIN flat[3] /\ flat[3].score = 50
           /\ flat[1] \in {Output[i] : i \in 1..Len(Output)}
           /\ flat[3] \notin {Output[i] : i \in 1..Len(Output)}

\* The score an entry is ranked by: a missing score counts as 0.
RankScore(r) == IF "score" \in DOMAIN r THEN r.score ELSE 0

\* The positions of the flattened list that deduplication keeps: Netlify
\* keys an entry by article_number (missing ones share one key), Vercel
\* gives every entry without article_number a key of its own.
KeptPositions(flat) ==
    {p \in 1..Len(flat) :
        \A e \in 1..(p - 1) :
            /\ ~SameArticle(flat[e], flat[p])
            /\ pc = "aggregate:netlify" => (HasArticle(flat[e]) \/ HasArticle(flat[p]))}

\* p ranks before q: a higher score, or the same score and an earlier place.
RanksBefore(flat, p, q) ==
    \/ RankScore(flat[p]) > RankScore(flat[q])
    \/ RankScore(flat[p]) = RankScore(flat[q]) /\ p < q

\* C4: at most 3 entries come back, and they are the first 3 of the
\* deduplicated list sorted by descending score, a missing score counting
\* as 0 and equal scores keeping their order; scores 10, 90, 50 come back
\* as 90, 50, 10.
C4_TopThree ==
    Aggregated =>
        LET flat == InputResults(subResults)
            kept == KeptPositions(flat)
        IN  /\ Len(Output) <= 3
            /\ Len(Output) = IF Cardinality(kept) < 3 THEN Cardinality(kept) ELSE 3
            /\ \A k \in 1..Len(Output) :
                   \E p \in kept :
                       /\ Output[k] = flat[p]
                       /\ Cardinality({q \in kept : RanksBefore(flat, q, p)}) = k - 1
            /\ flat = ExampleResults =>
                   [k \in 1..Len(Output) |-> Output[k].score] = <<90, 50, 10>>

\* Four entries survive deduplication with scores -5, 50, none, 50: the
\* two 50s come first in their order, then the one without score.
C4_Witness ==
    /\ pc = "aggregate:netlify"
    /\ LET flat == InputResults(subResults)
       IN  /\ Len(flat) = 4
           /\ Cardinality(KeptPositions(flat)) = 4
           /\ [k \in 1..4 |-> RankScore(flat[k])] = <<-5, 50, 0, 50>>
           /\ "score" \notin DOMAIN flat[3]
           /\ Output = <<flat[2], flat[4], flat[3]>>

NoSuccess(settled) ==
    \A i \in 1..Len(settled) : ~(settled[i].status = "fulfilled" /\ settled[i].value.success)

\* C5 (as claimed): with no successful outcome aggregateQueryResults gives
\* an empty result list, a failure message in the requested language and
\* partitioned_search = true.
C5_Original ==
    (pc = "aggregate:netlify" /\ NoSuccess(subResults)) =>
        /\ Output = <<>>
        /\ "error" \in DOMAIN aggregated.content.value
        /\ aggregated.content.value.error.language = language
        /\ "partitioned_search" \in DOMAIN aggregated.content.value
        /\ aggregated.content.value.partitioned_search = TRUE

(***************************************************************************)
(* Properties of the key selection                                         *)
(***************************************************************************)
PoolSize == Len(DEEPSEEK_API_KEYS)

Bias(lang) == IF lang = "ar" THEN 1 ELSE 0

\* The index chosen is inside the pool and is (retryAttempt + bias) mod
\* poolSize; with 2 keys or more, 'ar' and 'en' differ at attempt 0.
KeyIndexRule ==
    /\ (pc = "key:selected" /\ PoolSize > 0) =>
           /\ "index" \in DOMAIN apiKey
           /\ apiKey.index \in 0..(PoolSize - 1)
           /\ \E k \in 0..(MaxRetry + 1) :
                  retryCount + Bias(language) = apiKey.index + k * PoolSize
           /\ apiKey.key = DEEPSEEK_API_KEYS[apiKey.index + 1]
    /\ PoolSize >= 2 => getNextApiKey("ar", 0).index # getNextApiKey("en", 0).index

\* A call leaves the pool as it is, and a call with the arguments of the
\* call before it returns what that call returned.
KeyStateless ==
    /\ DEEPSEEK_API_KEYS' = DEEPSEEK_API_KEYS
    /\ (pc = "key:selected" /\ language' = language /\ retryCount' = retryCount)
           => apiKey' = apiKey

\* C10: getNextApiKey is a deterministic, stateless function of (language,
\* retryAttempt) and the pool: it returns the credential at index
\* (retryAttempt + bias) mod poolSize, bias 1 for 'ar' and 0 otherwise,
\* always inside the pool, and with a pool of 2 or more selectKey('ar', 0)
\* and selectKey('en', 0) differ.
C10_KeySelection == []KeyIndexRule /\ [][KeyStateless]_vars

\* A pool of 3, 'ar' at attempt 2: the index wraps around to 0.
C10_Witness ==
    /\ pc = "key:selected"
    /\ PoolSize = 3
    /\ language = "ar"
    /\ retryCount = 2
    /\ apiKey.index = 0
    /\ issued = 3

(***************************************************************************)
(* Properties of the Netlify handler                                       *)
(***************************************************************************)
\* The request went through query partitioning and has been answered.
PartitionedDone ==
    /\ pc = "handler:done"
    /\ language = "ar"
    /\ Len(Trim(query)) > PARTITION_THRESHOLD
    /\ IsDefined(aggregated)

\* A sub-query that succeeded with a content that parses and holds results.
WellFormedSuccess(outcome) ==
    /\ outcome.status = "fulfilled"
    /\ outcome.value.success
    /\ outcome.value.response.content.json
    /\ Has(outcome.value.response.content.value, "results")

\* C1: for an Arabic request routed through query partitioning, whenever at
\* least one sub-query call succeeds with a well-formed results payload the
\* handler answers with status 200 and a success payload, not a failure.
C1_Original ==
    (PartitionedDone /\ \E i \in DOMAIN subResults : WellFormedSuccess(subResults[i]))
        => (response.statusCode = 200 /\ response.body.success)

Settled(i) == subResults[i].status # "pending"

\* Every sub-query has its call; a sub-query without an outcome can still
\* get one, whatever became of the others; the aggregate exists only once
\* every sub-query has its outcome; an outcome carries its sub-query and a
\* success flag.
FanOutState ==
    /\ pc = "handler:awaiting" =>
           /\ Len(calls) = Len(subQueries)
           /\ Len(subResults) = Len(subQueries)
           /\ issued = Len(subQueries)
           /\ \A i \in DOMAIN subQueries :
                  /\ calls[i].query = subQueries[i]
                  /\ ~Settled(i) => (ENABLED SubQuerySucceeds(i) /\ ENABLED SubQueryFails(i))
    /\ IsDefined(aggregated) =>
           /\ Len(subResults) = Len(subQueries)
           /\ \A i \in DOMAIN subResults : Settled(i)
    /\ \A i \in DOMAIN subResults :
           Settled(i) =>
               /\ subResults[i].status = "fulfilled"
               /\ subResults[i].value.subQuery = subQueries[i]
               /\ subResults[i].value.success \in BOOLEAN
               /\ subResults[i].value.success <=> calls[i].status = "resolved"

\* The calls are all issued in the step that issues the first one, none of
\* them settled; an outcome, once there, stays as it is; a step gives an
\* outcome to one sub-query at most.
FanOutStep ==
    /\ (pc = "handler:start" /\ pc' = "handler:awaiting") =>
           /\ issued' = Len(subQueries')
           /\ \A i \in DOMAIN subQueries' :
                  calls'[i].status = "pending" /\ subResults'[i] = Pending
    /\ \A i \in DOMAIN subResults :
           Settled(i) => (i \in DOMAIN subResults' /\ subResults'[i] = subResults[i])
    /\ pc = "handler:awaiting" =>
           \A i, j \in DOMAIN subResults :
               (i # j /\ subResults'[i] # subResults[i]) =>
                   (subResults'[j] = subResults[j] /\ calls'[j] = calls[j])

\* C2: in the parallel fan-out one upstream call is issued for every
\* sub-query without waiting for any other; aggregation starts only after
\* every sub-query has produced an outcome; a failure of one sub-query never
\* cancels or prevents the outcome of a sibling; each outcome is tagged with
\* its sub-query and a success flag.
C2_FanOut == []FanOutState /\ [][FanOutStep]_vars

\* Three sub-queries, the first failed, the other two succeeded, aggregated.
C2_Witness ==
    /\ pc = "handler:done"
    /\ Len(subQueries) = 3
    /\ IsDefined(aggregated)
    /\ ~subResults[1].value.success
    /\ subResults[2].value.success
    /\ subResults[3].value.success
    /\ aggregated.content.value.sub_queries_processed = 2

(***************************************************************************)
(* Properties of the request handlers                                      *)
(***************************************************************************)
\* C11: when the credential pool is empty the handler ends the request with
\* status 500 and the kind 'API configuration error', having issued no
\* upstream call (the CORS preflight, answered before the pool is looked at,
\* aside).
C11_Original ==
    (pc = "handler:done" /\ Len(DEEPSEEK_API_KEYS) = 0 /\ request.httpMethod # "OPTIONS")
        => /\ response.statusCode = 500
           /\ response.body.error = "API configuration error"
           /\ issued = 0

(***************************************************************************)
(* Properties of the call with retries                                     *)
(***************************************************************************)
Retryable(statusCode) == statusCode = 429 \/ statusCode >= 500

\* C12: a request is followed by another one, with retryAttempt + 1, the
\* key of that attempt and the same payload, exactly when its response has
\* status 429 or 5xx and retryAttempt < poolSize - 1; every other failure is
\* surfaced without a further call; one invocation never issues more than
\* poolSize calls.
C12_Original ==
    /\ Len(calls) <= Len(DEEPSEEK_API_KEYS)
    /\ \A k \in DOMAIN calls :
           /\ calls[k].status = "answered" =>
                  (k < Len(calls)
                      <=> (Retryable(calls[k].statusCode)
                              /\ calls[k].retryCount < Len(DEEPSEEK_API_KEYS) - 1))
           /\ calls[k].status \in {"error", "timeout"} => k = Len(calls)
           /\ k > 1 =>
                  /\ calls[k].retryCount = calls[k - 1].retryCount + 1
                  /\ calls[k].payload = calls[k - 1].payload
                  /\ calls[k].keyIndex
                         = (calls[k].retryCount + Bias(language)) % Len(DEEPSEEK_API_KEYS)


\* The handler has answered, or is waiting for the upstream.
Answered == pc \in {"handler:done", "vercel:done"}

\* The request got as far as validateRequest: a GET or a POST, with keys
\* configured and a body the handler can read.
ReachesValidation ==
    /\ Len(DEEPSEEK_API_KEYS) > 0
    /\ IF Has(request, "httpMethod")
       THEN /\ request.httpMethod \in {"GET", "POST"}
            /\ ~(request.httpMethod = "POST" /\ Has(request, "body") /\ ~request.body.json)
       ELSE /\ request.method \in {"GET", "POST"}
            /\ ~(request.method = "POST" /\ ~Has(request, "body"))

InvalidInput ==
    \/ Len(Trim(query)) = 0
    \/ Len(Trim(query)) > MAX_QUERY_LENGTH
    \/ language \notin {"ar", "en"}

PartitionSizes == [p \in DOMAIN partitions |-> Len(partitions[p].articles)]

RECURSIVE ArticlesOf(_)
\* The articles of the partitions, one partition after the other.
ArticlesOf(parts) ==
    IF parts = <<>> THEN <<>> ELSE Head(parts).articles \o ArticlesOf(Tail(parts))

Partitioned == pc = "partition:done" /\ Has(documents, "articles")

CeilDiv(a, b) == (a + b - 1) \div b

\* C14 as stated: a fixed number of partitions, 4 as in the example, of
\* size ceil(article_count / 4), contiguous and covering every article
\* once in order; 55 articles give the sizes [14,14,14,13].
C14_Original ==
    Partitioned =>
        LET n == Len(documents.articles)
        IN  /\ Len(partitions) = 4
            /\ \A p \in DOMAIN partitions : Len(partitions[p].articles) <= CeilDiv(n, 4)
            /\ ArticlesOf(partitions) = documents.articles
            /\ n = 55 => PartitionSizes = <<14, 14, 14, 13>>

\* C14 as the code has it: the chunk size is ceil(article_count / 3); the
\* partitions are the ceil(article_count / size) consecutive chunks of that
\* size (at most 3, fewer for some small corpora, none for an empty one),
\* the last one possibly smaller; they cover every article once, in order;
\* 55 articles give the sizes [19,19,17].
C14_Amended ==
    Partitioned =>
        LET n == Len(documents.articles)
            size == CeilDiv(n, 3)
        IN  /\ Len(partitions) = (IF n = 0 THEN 0 ELSE CeilDiv(n, size))
            /\ Len(partitions) <= 3
            /\ \A p \in DOMAIN partitions :
                   /\ partitions[p].articles
                          = SubSeq(documents.articles, (p - 1) * size + 1,
                                   IF p * size < n THEN p * size ELSE n)
                   /\ p < Len(partitions) => Len(partitions[p].articles) = size
                   /\ Len(partitions[p].articles) \in 1..size
            /\ ArticlesOf(partitions) = documents.articles
            /\ n = 55 => PartitionSizes = <<19, 19, 17>>

C14_Witness ==
    /\ Partitioned
    /\ Len(documents.articles) = 55
    /\ PartitionSizes = <<19, 19, 17>>


(***************************************************************************)
(* Properties of the context sent upstream                                 *)
(***************************************************************************)
\* The text without its white space.
StripSpaces(text) == SelectSeq(text, LAMBDA c : c \notin WhiteSpace)

\* Sent is the loaded article with nothing but the spacing of its texts
\* changed.
ArticleKept(loaded, sent) ==
    /\ DOMAIN loaded \subseteq DOMAIN sent
    /\ \A f \in DOMAIN loaded :
           IF f \in {"title", "text", AR_TITLE, AR_TEXT}
           THEN StripSpaces(sent[f]) = StripSpaces(loaded[f])
           ELSE sent[f] = loaded[f]

\* C15: every upstream call of the Netlify handler carries the corpus as
\* loaded for the request: every top-level section, every article and every
\* field of every article, with at most the spacing of the text changed.
C15_Original ==
    \A i \in DOMAIN calls :
        (pc \in {"handler:awaiting", "handler:streaming", "handler:done"}) =>
            /\ DOMAIN documents \subseteq DOMAIN calls[i].documents
            /\ Len(calls[i].documents.articles) = Len(documents.articles)
            /\ \A j \in DOMAIN documents.articles :
                   ArticleKept(documents.articles[j], calls[i].documents.articles[j])


(***************************************************************************)
(* Properties of the answers                                               *)
(***************************************************************************)
\* The Vercel handler has answered a partitioned request all of whose
\* partition calls failed.
AllPartitionsFailed ==
    /\ pc = "vercel:done"
    /\ partitions # <<>>
    /\ subResults # <<>>
    /\ \A i \in DOMAIN subResults : ~subResults[i].value.success

\* C16: when every partition call of the Vercel handler fails, whatever the
\* failures, the request is answered 200 with success, no results, an empty
\* result list and the no-results message of the language.
C16_AllPartitionsFail ==
    AllPartitionsFailed =>
        /\ response.statusCode = 200
        /\ response.body.success
        /\ ~response.body.hasResults
        /\ response.body.results = <<>>
        /\ response.body.message = Msg(language, "No matching results found for your query")
        /\ response.body.metadata.total_results = 0
        /\ issued = Len(partitions)

C16_Witness ==
    /\ AllPartitionsFailed
    /\ Len(partitions) = 3
    /\ Len(subResults) = 3
    /\ Cardinality({subResults[i].value.error.error : i \in DOMAIN subResults}) = 3
    /\ response.statusCode = 200
    /\ ~response.body.hasResults


\* C17: every failure response of the two handlers to a request whose
\* language is 'ar' or 'en' carries its message in that language.
C17_Original ==
    (Answered /\ response.statusCode >= 400 /\ language \in {"ar", "en"})
        => response.body.message.language = language


(***************************************************************************)
(* Properties of processSearchResults                                      *)
(***************************************************************************)
\* processSearchResults has returned for an upstream content with a list.
Processed ==
    /\ pc \in {"process:netlify", "process:vercel"}
    /\ apiResponse.content.json
    /\ Has(apiResponse.content.value, "results")

UpstreamList == apiResponse.content.value.results

\* The entry returned is the upstream entry, relabelled.
SameEntry(returned, upstream) ==
    /\ returned.title = upstream.title
    /\ returned.score = (IF Has(upstream, "score") THEN upstream.score ELSE 0)
    /\ returned.source.article
           = (IF Has(upstream, "article_number") THEN upstream.article_number ELSE "Unknown")
    /\ returned.content = (IF Has(upstream, "relevant_text") THEN upstream.relevant_text ELSE "")

\* At most 3 results, the first 3 of the upstream list in its order;
\* hasResults iff the list is non-empty; total_results is its length.
FirstThree ==
    /\ ~IsThrown(response)
    /\ Len(response.results) = (IF Len(UpstreamList) < 3 THEN Len(UpstreamList) ELSE 3)
    /\ \A i \in DOMAIN response.results : SameEntry(response.results[i], UpstreamList[i])
    /\ response.hasResults <=> UpstreamList # <<>>
    /\ response.metadata.total_results = Len(UpstreamList)

\* metadata.returned_results and the count of the message are min(3, total).
CountsStated ==
    /\ Has(response.metadata, "returned_results")
    /\ response.metadata.returned_results
           = (IF Len(UpstreamList) < 3 THEN Len(UpstreamList) ELSE 3)
    /\ Has(response.message, "count")
    /\ response.message.count = response.metadata.returned_results

\* C18 as stated: at most 3 results, the first 3 upstream entries in order;
\* hasResults iff the upstream list is non-empty; total_results is the
\* upstream count; returned_results is min(3, total_results) and is the
\* count stated in the message.
C18_Original == Processed => (FirstThree /\ CountsStated)

\* C18 as the code has it: the same, with returned_results and the count
\* in the message there only when the upstream list is non-empty; for an
\* empty list the metadata holds total_results 0 and the language only and
\* the message states no count.
C18_Amended ==
    Processed =>
        /\ FirstThree
        /\ IF UpstreamList # <<>> THEN CountsStated
           ELSE /\ ~Has(response.metadata, "returned_results")
                /\ ~Has(response.message, "count")

C18_Witness ==
    /\ Processed
    /\ Len(UpstreamList) = 4
    /\ Len(response.results) = 3
    /\ response.metadata.total_results = 4
    /\ response.metadata.returned_results = 3
    /\ response.message.count = 3


(***************************************************************************)
(* Properties of the streaming call                                        *)
(***************************************************************************)
StreamResolved == apiResponse # NoValue /\ apiResponse.settled = "resolved"

\* C19: the content the streaming call resolves with is the concatenation,
\* in arrival order, of every fragment the upstream sent, however the bytes
\* were divided into chunks.
C19_Original ==
    (pc \in {"stream:open", "stream:closed"} /\ StreamResolved)
        => apiResponse.value.content = stream.sent

\* C20: the streaming call resolves as soon as a terminal marker, a frame
\* with finish_reason "stop" or the [DONE] sentinel, has been observed.
C20_Original ==
    (pc \in {"stream:open", "stream:closed"} /\ (stream.sawStop \/ stream.sawDone))
        => StreamResolved


(***************************************************************************)
(* Properties of the partition loop (Vercel)                               *)
(***************************************************************************)
PendingCalls == {i \in DOMAIN calls : calls[i].status = "pending"}

OnPartitionPath == pc \in {"vercel:partition", "vercel:done"} /\ partitions # <<>>

\* C21: the partition calls of the Vercel handler are issued one at a time
\* in partition order, each with the unsplit query: call N exists only once
\* the N-1 calls before it have their outcome, at most one call is in
\* flight, and, failures or not, every partition has been called when the
\* handler answers.
C21_OneAtATime ==
    OnPartitionPath =>
        /\ Cardinality(PendingCalls) <= 1
        /\ \A i \in DOMAIN calls :
               /\ calls[i].documents = partitions[i]
               /\ calls[i].query = query
               /\ calls[i].language = language
        /\ Len(calls) <= Len(partitions)
        /\ issued = Len(calls)
        /\ pc = "vercel:partition" =>
               /\ Len(calls) = Len(subResults) + 1
               /\ PendingCalls = {Len(calls)}
        /\ pc = "vercel:done" =>
               /\ Len(calls) = Len(partitions)
               /\ Len(subResults) = Len(partitions)
               /\ PendingCalls = {}

C21_Witness ==
    /\ OnPartitionPath
    /\ pc = "vercel:partition"
    /\ Len(partitions) = 3
    /\ Len(calls) = 3
    /\ Len(subResults) = 2
    /\ ~subResults[1].value.success
    /\ ~subResults[2].value.success
    /\ calls[3].status = "pending"


(***************************************************************************)
(* The reference pipeline of the Arabic splitter                           *)
(***************************************************************************)
RECURSIVE RefCut(_, _, _)
\* The pieces of s between the occurrences of sep, scanning from the left;
\* cur is the piece under way.
RefCut(s, sep, cur) ==
    IF s = <<>> THEN <<cur>>
    ELSE IF Len(s) >= Len(sep) /\ SubSeq(s, 1, Len(sep)) = sep
    THEN <<cur>> \o RefCut(SubSeq(s, Len(sep) + 1, Len(s)), sep, <<>>)
    ELSE RefCut(Tail(s), sep, Append(cur, Head(s)))

\* s without the white space at its two ends.
RefTrim(s) ==
    LET inside == {i \in DOMAIN s : s[i] \notin WhiteSpace}
    IN  IF inside = {} THEN <<>>
        ELSE SubSeq(s, CHOOSE i \in inside : \A j \in inside : i <= j,
                       CHOOSE i \in inside : \A j \in inside : i >= j)

RefOccurs(s, sep) == \E i \in 1..(Len(s) - Len(sep) + 1) : SubSeq(s, i, i + Len(sep) - 1) = sep

\* The trimmed fragments of q longer than 3 characters, in order.
RefFragments(q, sep) ==
    LET pieces == RefCut(q, sep, <<>>)
        trimmed == [i \in DOMAIN pieces |-> RefTrim(pieces[i])]
    IN  SelectSeq(trimmed, LAMBDA f : Len(f) > 3)

RECURSIVE RefPass(_, _)
\* One pass: every sub-query holding the connector gives way to its
\* fragments, the others stay.
RefPass(qs, sep) ==
    IF qs = <<>> THEN <<>>
    ELSE (IF RefOccurs(Head(qs), sep) THEN RefFragments(Head(qs), sep) ELSE <<Head(qs)>>)
             \o RefPass(Tail(qs), sep)

RECURSIVE RefPasses(_, _)
\* The passes of the connectors k, k + 1, ... in their listed order.
RefPasses(qs, k) ==
    IF k > Len(arabicSplitters) THEN qs ELSE RefPasses(RefPass(qs, arabicSplitters[k]), k + 1)

\* Connector passes, then drop the fragments of length <= 2, then keep the
\* first 3, then fall back to the query when nothing is left.
RefPipeline(q) ==
    LET fragments == RefPasses(<<q>>, 1)
        longEnough == SelectSeq(fragments, LAMBDA f : Len(f) > 2)
        firstThree == SubSeq(longEnough, 1, IF Len(longEnough) < 3 THEN Len(longEnough) ELSE 3)
    IN  IF firstThree = <<>> THEN <<q>> ELSE firstThree

\* C22: for every Arabic query the splitter returns what the reference
\* pipeline returns (connector passes in the listed order, fragments of
\* length <= 2 dropped, the first 3 kept, the query itself when nothing
\* remains), so between 1 and 3 sub-queries.
C22_Pipeline ==
    (pc = "split:done" /\ language = "ar") =>
        /\ subQueries = RefPipeline(query)
        /\ Len(subQueries) \in 1..3

\* Two different connectors apply, four fragments come out of the passes
\* and the first three are kept.
C22_Witness ==
    /\ pc = "split:done"
    /\ language = "ar"
    /\ query = Word4 \o <<WAW>> \o Word4 \o <<KAF, MEEM, ALEF>> \o Word4 \o <<WAW>> \o Word4
    /\ Len(RefPasses(<<query>>, 1)) = 4
    /\ subQueries = <<Word4, Word4, Word4>>


(***************************************************************************)
(* Further properties of the aggregation                                   *)
(***************************************************************************)
OutputEntries == {Output[i] : i \in 1..Len(Output)}

\* C23: a result without article_number is deduplicated under a key of its
\* own, so it is never discarded as the duplicate of another result without
\* article_number: when the cut to three removes nothing, every such result
\* of the input is in the aggregated list.
C23_Original ==
    (Aggregated /\ Len(InputResults(subResults)) <= 3) =>
        \A p \in 1..Len(InputResults(subResults)) :
            ~HasArticle(InputResults(subResults)[p])
                => InputResults(subResults)[p] \in OutputEntries


\* The outcomes whose content parses and holds a results array.
WellFormedOutcomes ==
    {i \in DOMAIN subResults :
        /\ subResults[i].status = "fulfilled"
        /\ subResults[i].value.success
        /\ subResults[i].value.response.content.json
        /\ "results" \in DOMAIN subResults[i].value.response.content.value}

\* C24: an outcome whose content is no JSON or has no results array counts
\* as a failure: it gives no results and is not counted in
\* sub_queries_processed, which is the number of well-formed outcomes.
C24_Original ==
    (pc = "aggregate:netlify" /\ "sub_queries_processed" \in DOMAIN aggregated.content.value)
        => aggregated.content.value.sub_queries_processed = Cardinality(WellFormedOutcomes)


(***************************************************************************)
(* Properties of the single call of the Vercel handler                     *)
(***************************************************************************)
\* The single call of the Vercel handler was answered with 429 or 5xx.
SingleCallTransientFailure ==
    /\ pc = "vercel:done"
    /\ partitions = <<>>
    /\ calls # <<>>
    /\ Has(calls[Len(calls)], "error")
    /\ Has(calls[Len(calls)].error, "statusCode")
    /\ (calls[Len(calls)].error.statusCode = 429 \/ calls[Len(calls)].error.statusCode >= 500)

\* C25: on the single-call path of the Vercel handler a 429 or 5xx is
\* retried with the key of the next attempt while retryAttempt is below
\* poolSize - 1, so the failure reaches the caller only after poolSize
\* calls.
C25_Original ==
    SingleCallTransientFailure =>
        /\ Len(calls) = Len(DEEPSEEK_API_KEYS)
        /\ issued = Len(DEEPSEEK_API_KEYS)


(***************************************************************************)
(* Properties of the loaded corpus                                         *)
(***************************************************************************)
\* C26: once loaded, the corpus of the request stays as it was read,
\* sections, articles and fields, through the optimization, the
\* partitioning and the dispatch of every call; what the calls carry are
\* copies derived from it.
C26_CorpusUnchanged ==
    (pc \notin {"handler:start", "vercel:start"} /\ Has(documents, "articles"))
        => documents = RuleFile(language)

\* All three partitions of an Arabic request have been sent, none of them
\* is the corpus, and the corpus is as it was read.
C26_Witness ==
    /\ pc = "vercel:done"
    /\ language = "ar"
    /\ Len(partitions) = 3
    /\ Len(calls) = 3
    /\ \A i \in DOMAIN calls : calls[i].documents # documents
    /\ documents = RuleFile("ar")
    /\ Has(documents, "appendices")


(***************************************************************************)
(* Properties of the file splitting script                                 *)
(***************************************************************************)
\* How many times x is in the sequence s.
Occurrences(s, x) == Cardinality({i \in DOMAIN s : s[i] = x})

\* C27: whatever the rule file, every article is in exactly one of the
\* three parts, each part holds its articles in the order of the file, and
\* every appendix of the file is in a part.
C27_Original ==
    pc = "file:written" =>
        LET written == partitions[1].articles \o partitions[2].articles
                           \o partitions[3].articles
            appendices == partitions[1].appendices \o partitions[2].appendices
                              \o partitions[3].appendices
        IN  /\ \A i \in DOMAIN documents.articles :
                   Occurrences(written, documents.articles[i]) = 1
            /\ \A p \in 1..3 :
                   partitions[p].articles
                       = SelectSeq(documents.articles,
                                   LAMBDA a : Occurrences(partitions[p].articles, a) > 0)
            /\ \A i \in DOMAIN documents.appendices :
                   Occurrences(appendices, documents.appendices[i]) >= 1

(***************************************************************************)
(* Properties of the caches of the search page.                            *)
(***************************************************************************)
CacheNames == DOMAIN documents

KeysOf(cache) == [i \in 1..Len(cache) |-> cache[i].key]

\* A response has just been stored: a fetch has left the flight and the page
\* shows its data.
JustStored == Len(calls') < Len(calls) /\ Has(response', "data")

\* What one step may do to one cache: nothing; replace the value under a key
\* that is present; add an entry at the end while there is room; or, when the
\* cache is full, add an entry at the end and drop the first one only.
CacheStep(old, new) ==
    \/ new = old
    \/ Len(new) = Len(old) /\ KeysOf(new) = KeysOf(old)
    \/ /\ Len(old) < CACHE_LIMIT
       /\ Len(new) = Len(old) + 1
       /\ SubSeq(new, 1, Len(old)) = old
       /\ \A i \in 1..Len(old) : old[i].key # new[Len(new)].key
    \/ /\ Len(old) = CACHE_LIMIT
       /\ Len(new) = CACHE_LIMIT
       /\ SubSeq(new, 1, CACHE_LIMIT - 1) = Tail(old)
       /\ \A i \in 1..Len(old) : old[i].key # new[Len(new)].key

\* C28: each cache of the page holds at most 50 entries in every state; a step
\* that stores a response under a new key when the cache is full drops exactly
\* one entry, the one inserted earliest, and the entry just stored is in the
\* cache after the step.
C28_CacheBounded ==
    /\ [](\A name \in CacheNames : Len(documents[name]) <= CACHE_LIMIT)
    /\ [][ /\ \A name \in CacheNames : CacheStep(documents[name], documents'[name])
           /\ JustStored =>
                  \E name \in CacheNames :
                      \E i \in 1..Len(documents'[name]) :
                          documents'[name][i].value = response'.data ]_vars

\* A full cache has received a new entry: the earliest entry is gone, the second
\* earliest is now the first, and the new entry is the last.
C28_Witness ==
    /\ pc = "page:ready"
    /\ \E name \in CacheNames :
           LET cache == documents[name]
           IN  /\ Len(cache) = CACHE_LIMIT
               /\ cache[1].value.answers.query = EarlierQuery(2)
               /\ cache[CACHE_LIMIT].value.answers.query = <<"a", "b", "c">>

\* The request an entry's data answers has the query, language and mode of the
\* entry's key, and the entry is in the cache of that mode.
EntryAnswersItsKey(name, entry) ==
    LET sent == entry.value.answers
    IN  /\ entry.key = CacheKey(request.page, sent.query, sent.language, sent.mode)
        /\ name = CacheName(request.page, sent.mode)

\* C29: every entry of a cache of the page is the response to a request that
\* was sent with the query, language and mode of its key, also when the language
\* or the mode is switched, or another search started, while the request is in
\* flight.
C29_Original ==
    \A name \in CacheNames :
        \A i \in 1..Len(documents[name]) : EntryAnswersItsKey(name, documents[name][i])

\* The data came with a status that is ok and says success: true.
SuccessfulData(data) == data.ok /\ Has(data, "success") /\ data.success = TRUE

\* The key handleSearch looks up in the state, and the cache it looks in.
LookupKey == CacheKey(request.page, Trim(query), language, request.currentMode)

LookupCache == documents[CacheName(request.page, request.currentMode)]

CacheHit == \E i \in 1..Len(LookupCache) : LookupCache[i].key = LookupKey

\* The step leaves the search field, the language and the mode alone and takes
\* no fetch out of the flight: it is a step of handleSearch, if it is one of
\* the page at all.
SearchStep ==
    /\ query' = query
    /\ language' = language
    /\ request'.currentMode = request.currentMode
    /\ Len(calls') >= Len(calls)

\* C30: the caches only hold responses that came with an ok status and
\* success: true; a search that fails or is rejected leaves the caches as they
\* were; a fetch is issued only when the cache has no entry under the key
\* looked up; and on a hit the page shows the cached data and issues no fetch.
C30_OnlySuccessesCached ==
    /\ [](\A name \in CacheNames :
              \A i \in 1..Len(documents[name]) : SuccessfulData(documents[name][i].value))
    /\ [][ /\ (Len(calls') < Len(calls) /\ ~Has(response', "data")) => documents' = documents
           /\ Len(calls') > Len(calls) => ~CacheHit
           /\ (SearchStep /\ CacheHit /\ Len(Trim(query)) >= MIN_QUERY_CHARS) =>
                  /\ calls' = calls
                  /\ issued' = issued
                  /\ \/ response' = response
                     \/ \E i \in 1..Len(LookupCache) :
                            /\ LookupCache[i].key = LookupKey
                            /\ Has(response', "data")
                            /\ response'.data = LookupCache[i].value ]_vars

\* The page shows, from the cache and with no fetch in flight or issued since
\* the search that stored it, the data of a hit, after an unsuccessful search
\* has left the cache as it was.
C30_Witness ==
    /\ pc = "page:ready"
    /\ calls = <<>>
    /\ issued = 1
    /\ CacheHit
    /\ Has(response, "data")
    /\ response.data.answers.query = EarlierQuery(1)
    /\ documents.searchCache = EarlierCache(request.page, "search", CACHE_LIMIT)

====
